---- MODULE Spec2Model ----
(***************************************************************************)
(* Verification model of sanasol/hytale-auth-server.                       *)
(*                                                                         *)
(* Spec is the JavaScript side, one turn of the event loop at a time: a    *)
(* turn is either an invocation of an exported function of the token       *)
(* service src/src/services/auth.js (Invoke, the function, Return), or a   *)
(* request to the stand-alone auth server embedded in                      *)
(* src/patcher/test-local.sh (HandleRequest, routeRequest and one handler, *)
(* ResponseEnd).  AgentSpec is the DualAuth agent: DualAuthContext.java    *)
(* and the advices of SessionServiceClientTransformer on pooled threads.   *)
(* KeySpec is the signing key of the token service over the lives of the   *)
(* process: loadOrGenerateKeys of auth.js and the key file.  RouteSpec is  *)
(* handleGameSessionNew of src/routes/session.js as its tests call it.     *)
(*                                                                         *)
(* JavaScript strings are TLA+ strings.  NULL stands for every falsy       *)
(* JavaScript value (undefined, null and the empty string): the code only  *)
(* ever tests these values for truthiness.                                 *)
(***************************************************************************)
EXTENDS Integers, Sequences, FiniteSets, TLC

VARIABLES
    call,       \* auth.js: the invocation in progress of an exported function
    ret,        \* auth.js: what that invocation returned
    req,        \* server: the request being served
    res,        \* server: the response written for it
    rnd,        \* server: the values crypto.randomUUID() returned for it
    currentIssuer,          \* agent: ThreadLocal of DualAuthContext
    currentJwk,             \* agent: ThreadLocal of DualAuthContext
    currentPlayerUuid,      \* agent: ThreadLocal of DualAuthContext
    currentUsername,        \* agent: ThreadLocal of DualAuthContext
    isCurrentTokenOmni,     \* agent: ThreadLocal of DualAuthContext
    globalJwkCache,         \* agent: JWK by issuer
    globalPlayerJwkCache,   \* agent: JWK by player uuid
    policy,                 \* agent: the issuer policy of the game server
    last,                   \* agent: the call completed last
    keyFile,        \* keys: the file config.keyFile
    fsMode,         \* keys: whether the volume of the key file reads, writes
    privateKey,     \* keys: module variable of auth.js
    publicKey,      \* keys: module variable of auth.js
    publicKeyJwk,   \* keys: module variable of auth.js
    kpc,            \* keys: where the process is in loadOrGenerateKeys
    life,           \* keys: how often the process has been started
    generated,      \* keys: how many key pairs have been generated
    signedBy,       \* keys: the tokens signed so far
    log,            \* keys: the last line loadOrGenerateKeys logged
    sreq,           \* session routes: the call of a handler in progress
    sres,           \* session routes: what the handler wrote to res
    swrite,         \* session routes: the promise of storage.registerSession
    sessionServiceUrl,  \* routing: the URL field of the shared client
    originalSessionUrl, \* routing: the URL DualAuthContext has saved
    upc,                \* routing: where each thread is in a routed call
    currentUrl,         \* routing: the local currentUrl of the advice
    requested,          \* routing: the request each thread sent last
    writeBuffer,    \* metrics: module variable of the metrics service
    flushPending,   \* metrics: module variable of the metrics service
    immediates,     \* metrics: callbacks setImmediate has queued
    pipelines,      \* metrics: the Redis pipelines built so far
    counted,        \* metrics: what the calls so far added to each counter
    ncalls,         \* metrics: how many calls were made
    treq,           \* telemetry: the call of handleTelemetry in progress
    tres,           \* telemetry: what the handler wrote to res
    tcalls          \* telemetry: how many calls were made

jsVars == <<call, ret, req, res, rnd>>
agentVars == <<currentIssuer, currentJwk, currentPlayerUuid, currentUsername,
               isCurrentTokenOmni, globalJwkCache, globalPlayerJwkCache,
               policy, last>>
keyVars == <<keyFile, fsMode, privateKey, publicKey, publicKeyJwk, kpc, life,
             generated, signedBy, log>>
routeVars == <<sreq, sres, swrite>>
urlVars == <<sessionServiceUrl, originalSessionUrl, upc, currentUrl, requested>>
metricVars == <<writeBuffer, flushPending, immediates, pipelines, counted,
                ncalls>>
telemetryVars == <<treq, tres, tcalls>>
sideVars == <<urlVars, metricVars, telemetryVars>>
vars == <<jsVars, agentVars, keyVars, routeVars, sideVars>>

NULL == ""

(***************************************************************************)
(* Bounds of the model.                                                    *)
(***************************************************************************)
MaxParts == 4       \* longest presented token string, in '.'-separated parts
MaxGen == 2         \* distinct values crypto.randomUUID() may return
MaxCalls == 3       \* calls of the metric writers
MaxTelemetry == 2   \* calls of handleTelemetry

(***************************************************************************)
(* String primitives of JavaScript used by the code.                       *)
(***************************************************************************)
\* String.prototype.includes
includes(s, t) ==
    \E i \in 0..(Len(s) - Len(t)) : SubSeq(s, i + 1, i + Len(t)) = t

\* s.split(c)[0] for a one-character separator c
splitFirst(s, c) ==
    IF \E i \in 1..Len(s) : SubSeq(s, i, i) = c
    THEN LET i == CHOOSE k \in 1..Len(s) :
                      /\ SubSeq(s, k, k) = c
                      /\ \A j \in 1..(k - 1) : SubSeq(s, j, j) # c
         IN  SubSeq(s, 1, i - 1)
    ELSE s

\* Array.prototype.join(' ')
RECURSIVE joinSpace(_)
joinSpace(list) ==
    IF Len(list) = 0 THEN ""
    ELSE IF Len(list) = 1 THEN list[1]
    ELSE list[1] \o " " \o joinSpace(Tail(list))

(***************************************************************************)
(* Configuration: the members of config that auth.js reads.                *)
(***************************************************************************)
Domain == "sanasol.ws"          \* config.domain
KeyId == "2025-10-01"           \* config.keyId
SessionTtl == 36000             \* config.sessionTtl
LocalKey == "local-ed25519"     \* the key pair of loadOrGenerateKeys

(***************************************************************************)
(* Compact tokens.  A token string is the sequence of its '.'-separated    *)
(* parts.  A part records whether its text is strictly URL-safe base64     *)
(* (b64) and the document its bytes decode to (doc): Buffer.from(part,     *)
(* 'base64url') never throws, it skips what it cannot decode, so a part    *)
(* with b64 = FALSE still decodes to some bytes.  A document is a JSON     *)
(* object, the JSON value null, or bytes that JSON.parse rejects.          *)
(***************************************************************************)
NoToken == <<>>                          \* an absent (falsy) token string
Garbage == [kind |-> "garbage"]          \* JSON.parse throws SyntaxError
JsonNull == [kind |-> "null"]            \* JSON.parse returns null

Part(d) == [b64 |-> TRUE, doc |-> d]
BadB64Part(d) == [b64 |-> FALSE, doc |-> d]

\* JSON.stringify of the header object of generateToken
Header(alg, kid, typ) == [kind |-> "object", alg |-> alg, kid |-> kid, typ |-> typ]

\* a claim set; absent members are NULL (0 for the two timestamps).  jti is
\* a fresh crypto.randomUUID() per token that nothing reads: the server's
\* tokens leave it out
Claims(sub, name, username, aud, scope, iss) ==
    [kind |-> "object", sub |-> sub, name |-> name, username |-> username,
     aud |-> aud, scope |-> scope, iss |-> iss, iat |-> 0, exp |-> 0,
     jti |-> NULL, cnf |-> NULL, entitlements |-> <<>>, profile |-> NULL]

\* crypto.sign(null, signingInput, key): the signature names key and input
Signature(key, header, body) ==
    [kind |-> "signature", key |-> key, over |-> <<header, body>>]

\* JSON.parse(Buffer.from(part, 'base64url').toString()) throws
parseThrows(part) == part.doc.kind \notin {"object", "null"}

(***************************************************************************)
(* src/src/services/auth.js                                                *)
(***************************************************************************)
\* getIssuerUrl that would keep the port of the Host header
getIssuerUrl_keepsPort(requestHost) ==
    IF requestHost # NULL
    THEN IF includes(requestHost, Domain)
         THEN "https://" \o requestHost
         ELSE "https://" \o Domain
    ELSE "https://" \o Domain

getIssuerUrl(requestHost) ==
    IF requestHost # NULL
    THEN LET host == splitFirst(requestHost, ":")
         IN  IF includes(host, Domain)
             THEN "https://" \o host
             ELSE "https://" \o Domain
    ELSE "https://" \o Domain

\* generateToken that would sign the claims without the header
generateToken_signsClaimsOnly(payload) ==
    LET header == Header("EdDSA", KeyId, "JWT")
    IN  <<Part(header), Part(payload),
          Part(Signature(LocalKey, payload, payload))>>

generateToken(payload) ==
    LET header == Header("EdDSA", KeyId, "JWT")
    IN  <<Part(header), Part(payload),
          Part(Signature(LocalKey, header, payload))>>

DEFAULT_SCOPES == "hytale:server hytale:client hytale:editor"

\* scopes is absent, an array of strings or a string
NoScopes == [type |-> "none"]
ScopeList(items) == [type |-> "array", items |-> items]
ScopeString(str) == [type |-> "string", str |-> str]

normalizeScopes(scopes) ==
    IF scopes.type = "none" \/ (scopes.type = "string" /\ scopes.str = NULL)
    THEN DEFAULT_SCOPES
    ELSE IF scopes.type = "array" THEN joinSpace(scopes.items)
    ELSE scopes.str

generateIdentityToken(uuid, name, scopes, entitlements, requestHost, now, jti) ==
    generateToken(
        [kind |-> "object", sub |-> uuid, name |-> name, username |-> name,
         aud |-> NULL, scope |-> normalizeScopes(scopes),
         iss |-> getIssuerUrl(requestHost), iat |-> now,
         exp |-> now + SessionTtl, jti |-> jti, cnf |-> NULL,
         entitlements |-> entitlements, profile |-> name])

\* generateSessionToken with the issuer of the base domain whatever the host
generateSessionToken_baseIssuer(uuid, requestHost, now, jti) ==
    generateToken(
        [kind |-> "object", sub |-> uuid, name |-> NULL, username |-> NULL,
         aud |-> NULL, scope |-> "hytale:server",
         iss |-> getIssuerUrl(NULL), iat |-> now,
         exp |-> now + SessionTtl, jti |-> jti, cnf |-> NULL,
         entitlements |-> <<>>, profile |-> NULL])

generateSessionToken(uuid, requestHost, now, jti) ==
    generateToken(
        [kind |-> "object", sub |-> uuid, name |-> NULL, username |-> NULL,
         aud |-> NULL, scope |-> "hytale:server",
         iss |-> getIssuerUrl(requestHost), iat |-> now,
         exp |-> now + SessionTtl, jti |-> jti, cnf |-> NULL,
         entitlements |-> <<>>, profile |-> NULL])

generateAuthorizationGrant(uuid, name, audience, scopes, requestHost, now, jti) ==
    generateToken(
        [kind |-> "object", sub |-> uuid, name |-> name, username |-> name,
         aud |-> audience, scope |-> normalizeScopes(scopes),
         iss |-> getIssuerUrl(requestHost), iat |-> now,
         exp |-> now + SessionTtl, jti |-> jti, cnf |-> NULL,
         entitlements |-> <<>>, profile |-> NULL])

\* generateAccessToken that derives the confirmation value itself
generateAccessToken_derivedCnf(uuid, name, audience, certFingerprint, scopes, requestHost, now, jti) ==
    generateToken(
        [kind |-> "object", sub |-> uuid, name |-> name, username |-> name,
         aud |-> audience, scope |-> normalizeScopes(scopes),
         iss |-> getIssuerUrl(requestHost), iat |-> now,
         exp |-> now + SessionTtl, jti |-> jti,
         cnf |-> "sha256:" \o certFingerprint,
         entitlements |-> <<"game.base">>, profile |-> NULL])

generateAccessToken(uuid, name, audience, certFingerprint, scopes, requestHost, now, jti) ==
    generateToken(
        [kind |-> "object", sub |-> uuid, name |-> name, username |-> name,
         aud |-> audience, scope |-> normalizeScopes(scopes),
         iss |-> getIssuerUrl(requestHost), iat |-> now,
         exp |-> now + SessionTtl, jti |-> jti,
         cnf |-> IF certFingerprint # NULL THEN certFingerprint ELSE NULL,
         entitlements |-> <<"game.base">>, profile |-> NULL])

\* the value parseToken returns: null, or the four claims it extracts
NullResult == [kind |-> "null"]
ParsedClaims(uuid, name, scope, aud) ==
    [kind |-> "claims", uuid |-> uuid, name |-> name, scope |-> scope, aud |-> aud]

\* tokenString.split('.') of an absent token throws TypeError, caught;
\* reading a member of the JSON value null throws TypeError, caught
parseToken(tokenString) ==
    IF Len(tokenString) >= 2
    THEN IF parseThrows(tokenString[2]) \/ tokenString[2].doc.kind = "null"
         THEN NullResult
         ELSE LET payload == tokenString[2].doc
              IN  ParsedClaims(payload.sub,
                               IF payload.username # NULL THEN payload.username
                                                          ELSE payload.name,
                               payload.scope, payload.aud)
    ELSE NullResult

\* headers.authorization is the bearer token string (NoToken when absent);
\* the result is the audience, or NULL for JavaScript null
extractServerAudienceFromHeaders(authorization) ==
    IF authorization = NoToken THEN NULL
    ELSE IF Len(authorization) >= 2
    THEN IF parseThrows(authorization[2]) \/ authorization[2].doc.kind = "null"
         THEN NULL
         ELSE LET payload == authorization[2].doc
              IN  IF payload.aud # NULL THEN payload.aud
                  ELSE IF payload.scope = "hytale:server" /\ payload.sub # NULL
                       THEN payload.sub
                       ELSE NULL
    ELSE NULL

(***************************************************************************)
(* Inputs.                                                                 *)
(***************************************************************************)
GenIds == {"gen-" \o ToString(i) : i \in 1..MaxGen}    \* crypto.randomUUID()
Times == {1706000000}                    \* Math.floor(Date.now() / 1000)

\* Host headers: inside the base domain, with a port, outside it, absent
Hosts == {NULL, "sanasol.ws", "auth.sanasol.ws", "sessions.sanasol.ws:443",
          "localhost:3000", "play.example.org", "sanasol.ws.evil.io:8443",
          "SANASOL.WS", ":8080"}

ScopeInputs == {NoScopes, ScopeString(NULL),
                ScopeString("hytale:server hytale:editor"),
                ScopeList(<<>>), ScopeList(<<"hytale:server">>),
                ScopeList(<<"hytale:server", "hytale:editor">>),
                ScopeList(<<"hytale:client", "hytale:client">>)}

\* the documents a presented part can decode to
HeaderDocs == {Header("EdDSA", KeyId, "JWT"), Header("HS256", KeyId, "JWT"),
               Header(NULL, KeyId, "JWT")}
ClaimDocs(subs, names, usernames, auds, scopes, isses) ==
    {Claims(s, n, u, a, sc, i) :
        s \in subs, n \in names, u \in usernames, a \in auds, sc \in scopes,
        i \in isses}

\* a token string of n parts: header part, payload part, then signatures
TokenOf(n, hp, pp) ==
    [i \in 1..n |->
        IF i = 1 THEN hp
        ELSE IF i = 2 THEN pp
        ELSE Part(Signature("presented", hp.doc, pp.doc))]

\* every shape of token string up to MaxParts parts over the given documents
TokenStrings(headers, payloads) ==
    {TokenOf(n, [b64 |-> hb, doc |-> h], [b64 |-> pb, doc |-> p]) :
        n \in 1..MaxParts, hb \in BOOLEAN, h \in headers,
        pb \in BOOLEAN, p \in payloads}

ParsedTokenStrings ==
    {NoToken} \cup
    TokenStrings(HeaderDocs,
                 ClaimDocs({NULL, "u2"}, {NULL, "Bob"}, {NULL, "Carol"},
                           {NULL, "s9"}, {NULL, "hytale:server",
                                          "hytale:server hytale:client"},
                           {NULL})
                 \cup {Garbage, JsonNull})

(***************************************************************************)
(* A turn of auth.js: an exported function is invoked, runs, returns.      *)
(* requestHost is the Host header of the request being served: the         *)
(* handlers pass req.headers.host (tests of src/routes/session.js).        *)
(***************************************************************************)
NoCall == [fn |-> "none"]
NoRet == [kind |-> "pending"]
TokenResult(t) == [kind |-> "token", token |-> t]
AudienceResult(a) == [kind |-> "audience", value |-> a]
SignedResult(t) == [kind |-> "signed", token |-> t]

AuthCalls ==
    [fn : {"generateIdentityToken"}, uuid : {"u1", "u2"}, name : {"Alice"},
     scopes : ScopeInputs, entitlements : {<<"game.base">>},
     requestHost : Hosts, now : Times, jti : GenIds]
    \cup
    [fn : {"generateSessionToken"}, uuid : {"u1", "u2"},
     requestHost : Hosts, now : Times, jti : GenIds]
    \cup
    [fn : {"generateAuthorizationGrant"}, uuid : {"u1", "u2"}, name : {"Alice"},
     audience : {NULL, "s-42"}, scopes : ScopeInputs,
     requestHost : Hosts, now : Times, jti : GenIds]
    \cup
    [fn : {"generateAccessToken"}, uuid : {"u1", "u2"}, name : {"Alice"},
     audience : {NULL, "s-42"}, certFingerprint : {NULL, "FP"},
     scopes : ScopeInputs, requestHost : Hosts, now : Times, jti : GenIds]
    \cup
    [fn : {"parseToken"}, tokenString : ParsedTokenStrings]
    \cup
    [fn : {"generateToken"},
     payload : ClaimDocs({NULL, "u2"}, {NULL, "Bob"}, {NULL, "Carol"},
                         {NULL, "s9"}, {NULL, "hytale:server"},
                         {NULL, "https://sanasol.ws"})]
    \cup
    [fn : {"extractServerAudienceFromHeaders"},
     authorization : ParsedTokenStrings]

Idle == call = NoCall /\ req.method = "none"

Invoke ==
    /\ Idle
    /\ call' \in AuthCalls
    /\ ret' = NoRet
    /\ UNCHANGED <<req, res, rnd, agentVars, keyVars, routeVars, sideVars>>

Running(fn) == call.fn = fn /\ ret = NoRet

GenerateIdentityToken ==
    /\ Running("generateIdentityToken")
    /\ ret' = TokenResult(generateIdentityToken(call.uuid, call.name,
                  call.scopes, call.entitlements, call.requestHost,
                  call.now, call.jti))
    /\ UNCHANGED <<call, req, res, rnd, agentVars, keyVars, routeVars, sideVars>>

GenerateSessionToken ==
    /\ Running("generateSessionToken")
    /\ ret' = TokenResult(generateSessionToken(call.uuid, call.requestHost,
                  call.now, call.jti))
    /\ UNCHANGED <<call, req, res, rnd, agentVars, keyVars, routeVars, sideVars>>

GenerateAuthorizationGrant ==
    /\ Running("generateAuthorizationGrant")
    /\ ret' = TokenResult(generateAuthorizationGrant(call.uuid, call.name,
                  call.audience, call.scopes, call.requestHost,
                  call.now, call.jti))
    /\ UNCHANGED <<call, req, res, rnd, agentVars, keyVars, routeVars, sideVars>>

GenerateAccessToken ==
    /\ Running("generateAccessToken")
    /\ ret' = TokenResult(generateAccessToken(call.uuid, call.name,
                  call.audience, call.certFingerprint, call.scopes,
                  call.requestHost, call.now, call.jti))
    /\ UNCHANGED <<call, req, res, rnd, agentVars, keyVars, routeVars, sideVars>>

\* the exported generateToken, called with a claim set of the caller
GenerateToken ==
    /\ Running("generateToken")
    /\ ret' = SignedResult(generateToken(call.payload))
    /\ UNCHANGED <<call, req, res, rnd, agentVars, keyVars, routeVars, sideVars>>

ParseToken ==
    /\ Running("parseToken")
    /\ ret' = parseToken(call.tokenString)
    /\ UNCHANGED <<call, req, res, rnd, agentVars, keyVars, routeVars, sideVars>>

ExtractServerAudienceFromHeaders ==
    /\ Running("extractServerAudienceFromHeaders")
    /\ ret' = AudienceResult(extractServerAudienceFromHeaders(call.authorization))
    /\ UNCHANGED <<call, req, res, rnd, agentVars, keyVars, routeVars, sideVars>>

Return ==
    /\ call # NoCall
    /\ ret # NoRet
    /\ call' = NoCall
    /\ ret' = NoRet
    /\ UNCHANGED <<req, res, rnd, agentVars, keyVars, routeVars, sideVars>>

AuthNext ==
    \/ Invoke
    \/ GenerateIdentityToken
    \/ GenerateSessionToken
    \/ GenerateAuthorizationGrant
    \/ GenerateAccessToken
    \/ GenerateToken
    \/ ParseToken
    \/ ExtractServerAudienceFromHeaders
    \/ Return

(***************************************************************************)
(* src/patcher/test-local.sh: the stand-alone auth server.                 *)
(***************************************************************************)
LOCAL_DOMAIN == "sanasol.ws"
KEY_ID == "2025-10-01"
LOCAL_TTL == 36000

\* String.prototype.toLowerCase
LowerOf ==
    [A |-> "a", B |-> "b", C |-> "c", D |-> "d", E |-> "e", F |-> "f",
     G |-> "g", H |-> "h", I |-> "i", J |-> "j", K |-> "k", L |-> "l",
     M |-> "m", N |-> "n", O |-> "o", P |-> "p", Q |-> "q", R |-> "r",
     S |-> "s", T |-> "t", U |-> "u", V |-> "v", W |-> "w", X |-> "x",
     Y |-> "y", Z |-> "z"]

RECURSIVE toLowerCase(_)
toLowerCase(s) ==
    IF s = "" THEN ""
    ELSE LET c == SubSeq(s, 1, 1)
         IN  (IF c \in DOMAIN LowerOf THEN LowerOf[c] ELSE c)
                 \o toLowerCase(SubSeq(s, 2, Len(s)))

\* the payload a handler reads from a token string, by the idiom
\*   parts = token.split('.'); if (parts.length >= 2) payload = JSON.parse(...)
\* inside try/catch; Garbage when the idiom yields no payload
readPayload(token) ==
    IF Len(token) >= 2 /\ ~parseThrows(token[2]) THEN token[2].doc ELSE Garbage

\* the payload has members to read (reading a member of null throws)
hasMembers(payload) == payload.kind = "object"

parseJwtPayload(token) ==
    IF token = NoToken THEN JsonNull
    ELSE IF Len(token) < 2 THEN JsonNull
    ELSE IF parseThrows(token[2]) THEN JsonNull
    ELSE token[2].doc

\* headers.authorization is the bearer token string
extractJwtFromHeaders(authorization) == authorization

\* the first body field that is a string with a '.' in it; the server's
\* clients use four of the eight field names
extractJwtFromBody(body) ==
    IF Len(body.identityToken) >= 2 THEN body.identityToken
    ELSE IF Len(body.sessionToken) >= 2 THEN body.sessionToken
    ELSE IF Len(body.accessToken) >= 2 THEN body.accessToken
    ELSE IF Len(body.authorizationGrant) >= 2 THEN body.authorizationGrant
    ELSE NoToken

\* new URL(raw) for issuers of the forms scheme://host[/path], host and
\* scheme:rest; NoUrl when the constructor throws or the issuer is falsy
NoUrl == [protocol |-> NULL, host |-> NULL, valid |-> FALSE]
normalizeIssuerToUrl(issuer) ==
    IF issuer = NULL THEN NoUrl
    ELSE LET scheme == splitFirst(issuer, ":")
             hasScheme == scheme # issuer /\ scheme # ""
             raw == IF hasScheme THEN issuer ELSE "https://" \o issuer
             proto == splitFirst(raw, ":")
             rest == SubSeq(raw, Len(proto) + 2, Len(raw))
         IN  IF Len(rest) >= 2 /\ SubSeq(rest, 1, 2) = "//"
             THEN LET authority == splitFirst(SubSeq(rest, 3, Len(rest)), "/")
                  IN  IF authority = "" THEN NoUrl
                      ELSE [protocol |-> toLowerCase(proto) \o ":",
                            host |-> toLowerCase(authority), valid |-> TRUE]
             ELSE [protocol |-> toLowerCase(proto) \o ":", host |-> "",
                   valid |-> TRUE]

\* NULL when there is nothing to redirect to
buildIssuerRedirectUrl(issuer, host, url) ==
    LET parsed == normalizeIssuerToUrl(issuer)
    IN  IF ~parsed.valid THEN NULL
        ELSE LET targetHost == toLowerCase(parsed.host)
                 currentHost == toLowerCase(host)
             IN  IF currentHost # "" /\ currentHost = targetHost THEN NULL
                 ELSE LET protocol ==
                              IF parsed.protocol \in {"http:", "https:"}
                              THEN parsed.protocol ELSE "https:"
                      IN  protocol \o "//" \o parsed.host \o url

\* the Location of the 307 answer, NULL when the request is not redirected
maybeRedirectToIssuer(r) ==
    LET fromHeaders == extractJwtFromHeaders(r.authorization)
        token == IF fromHeaders # NoToken THEN fromHeaders
                 ELSE extractJwtFromBody(r.body)
    IN  IF token = NoToken THEN NULL
        ELSE LET payload == parseJwtPayload(token)
                 issuer == IF payload.kind = "object" THEN payload.iss ELSE NULL
             IN  IF issuer = NULL THEN NULL
                 ELSE buildIssuerRedirectUrl(issuer, r.host, r.path)

localGenerateToken(payload) ==
    LET header == Header("EdDSA", KEY_ID, "JWT")
    IN  <<Part(header), Part(payload),
          Part(Signature(LocalKey, header, payload))>>

localGenerateIdentityToken(uuid, name, now) ==
    localGenerateToken(
        [kind |-> "object", sub |-> uuid, name |-> name, username |-> name,
         aud |-> NULL, scope |-> "hytale:server hytale:client",
         iss |-> "https://sessions." \o LOCAL_DOMAIN, iat |-> now,
         exp |-> now + LOCAL_TTL, jti |-> NULL, cnf |-> NULL,
         entitlements |-> <<"game.base">>, profile |-> NULL])

localGenerateSessionToken(uuid, now) ==
    localGenerateToken(
        [kind |-> "object", sub |-> uuid, name |-> NULL, username |-> NULL,
         aud |-> NULL, scope |-> "hytale:server",
         iss |-> "https://sessions." \o LOCAL_DOMAIN, iat |-> now,
         exp |-> now + LOCAL_TTL, jti |-> NULL, cnf |-> NULL,
         entitlements |-> <<>>, profile |-> NULL])

\* generateAuthorizationGrant that binds the grant to its own subject
localGenerateAuthorizationGrant_subjectAudience(uuid, name, audience, now) ==
    localGenerateToken(
        [kind |-> "object", sub |-> uuid, name |-> name, username |-> name,
         aud |-> uuid, scope |-> "hytale:server hytale:client",
         iss |-> "https://sessions." \o LOCAL_DOMAIN, iat |-> now,
         exp |-> now + LOCAL_TTL, jti |-> NULL, cnf |-> NULL,
         entitlements |-> <<>>, profile |-> NULL])

localGenerateAuthorizationGrant(uuid, name, audience, now) ==
    localGenerateToken(
        [kind |-> "object", sub |-> uuid, name |-> name, username |-> name,
         aud |-> audience, scope |-> "hytale:server hytale:client",
         iss |-> "https://sessions." \o LOCAL_DOMAIN, iat |-> now,
         exp |-> now + LOCAL_TTL, jti |-> NULL, cnf |-> NULL,
         entitlements |-> <<>>, profile |-> NULL])

\* the answers of the server; members a handler does not send are absent
Answer(status) ==
    [status |-> status, location |-> NULL, identityToken |-> NoToken,
     sessionToken |-> NoToken, authorizationGrant |-> NoToken,
     accessToken |-> NoToken, refreshToken |-> NoToken, expiresAt |-> 0]

\* uuid and name of the request context, computed by routeRequest
routeContext(body, authorization, g) ==
    LET payload == readPayload(authorization)
    IN  [uuid |-> IF hasMembers(payload) /\ payload.sub # NULL THEN payload.sub
                  ELSE IF body.uuid # NULL THEN body.uuid ELSE g,
         name |-> IF hasMembers(payload) /\ payload.name # NULL THEN payload.name
                  ELSE IF body.name # NULL THEN body.name ELSE "Player"]

handleGameSessionNew(body, uuid, name, now) ==
    LET id == IF body.uuid # NULL THEN body.uuid ELSE uuid
    IN  [Answer(200) EXCEPT
            !.identityToken = localGenerateIdentityToken(id, name, now),
            !.sessionToken = localGenerateSessionToken(id, now),
            !.expiresAt = now + LOCAL_TTL]

handleGameSessionRefresh(body, uuid, name, now) ==
    LET payload == readPayload(body.sessionToken)
        id == IF hasMembers(payload) /\ payload.sub # NULL THEN payload.sub
              ELSE uuid
        nm == IF hasMembers(payload) /\ payload.name # NULL THEN payload.name
              ELSE name
    IN  [Answer(200) EXCEPT
            !.identityToken = localGenerateIdentityToken(id, nm, now),
            !.sessionToken = localGenerateSessionToken(id, now),
            !.expiresAt = now + LOCAL_TTL]

\* the lifetime handleGameSessionChild gives the child identity token
CHILD_TTL == 86400

\* now and later are what the first and the second Date.now() of the
\* handler return, in seconds
handleGameSessionChild(body, uuid, name, now, later) ==
    LET scopes == IF body.scopes.type = "none"
                     \/ (body.scopes.type = "string" /\ body.scopes.str = NULL)
                  THEN ScopeList(<<"hytale:server">>) ELSE body.scopes
        scopeString == IF scopes.type = "array" THEN joinSpace(scopes.items)
                       ELSE scopes.str
    IN  [Answer(200) EXCEPT
            !.identityToken = localGenerateToken(
                [kind |-> "object", sub |-> uuid, name |-> name,
                 username |-> name, aud |-> NULL, scope |-> scopeString,
                 iss |-> "https://sessions." \o LOCAL_DOMAIN, iat |-> now,
                 exp |-> later + CHILD_TTL, jti |-> NULL, cnf |-> NULL,
                 entitlements |-> <<"game.base">>, profile |-> NULL]),
            !.sessionToken = localGenerateSessionToken(uuid, later),
            !.expiresAt = later + CHILD_TTL]

\* a session delete that would insist on a bearer token
handleGameSessionDelete_requiresBearer(authorization) ==
    IF authorization = NoToken THEN Answer(401) ELSE Answer(204)

\* routeRequest answers DELETE /game-session itself: 204 and no body (no
\* route before this one matches the path /game-session)
handleGameSessionDelete(authorization) == Answer(204)

\* handleAuthorizationGrant that keeps the subject of the request context
handleAuthorizationGrant_contextSubject(body, uuid, name, g, now) ==
    LET payload == readPayload(body.identityToken)
        nm == IF hasMembers(payload) /\ payload.username # NULL
              THEN payload.username
              ELSE IF hasMembers(payload) /\ payload.name # NULL
              THEN payload.name
              ELSE name
        audience == IF body.aud # NULL THEN body.aud
                    ELSE IF body.audience # NULL THEN body.audience
                    ELSE IF body.server_id # NULL THEN body.server_id
                    ELSE g
    IN  [Answer(200) EXCEPT
            !.authorizationGrant =
                localGenerateAuthorizationGrant(uuid, nm, audience, now),
            !.expiresAt = now + LOCAL_TTL]

\* g is the value of crypto.randomUUID() for a request that names no audience
handleAuthorizationGrant(body, uuid, name, g, now) ==
    LET payload == readPayload(body.identityToken)
        id == IF hasMembers(payload) /\ payload.sub # NULL THEN payload.sub
              ELSE uuid
        nm == IF hasMembers(payload) /\ payload.username # NULL
              THEN payload.username
              ELSE IF hasMembers(payload) /\ payload.name # NULL
              THEN payload.name
              ELSE name
        audience == IF body.aud # NULL THEN body.aud
                    ELSE IF body.audience # NULL THEN body.audience
                    ELSE IF body.server_id # NULL THEN body.server_id
                    ELSE g
    IN  [Answer(200) EXCEPT
            !.authorizationGrant =
                localGenerateAuthorizationGrant(id, nm, audience, now),
            !.expiresAt = now + LOCAL_TTL]

\* handleTokenExchange that keeps the subject of the request context
handleTokenExchange_contextSubject(body, uuid, name, now) ==
    LET payload == readPayload(body.authorizationGrant)
        audience == IF hasMembers(payload) THEN payload.aud ELSE NULL
        nm == IF hasMembers(payload) /\ payload.name # NULL THEN payload.name
              ELSE name
        certFingerprint == IF body.x509Fingerprint # NULL
                           THEN body.x509Fingerprint
                           ELSE IF body.certFingerprint # NULL
                           THEN body.certFingerprint
                           ELSE body.fingerprint
        tokenPayload ==
            [kind |-> "object", sub |-> uuid, name |-> nm, username |-> nm,
             aud |-> audience, scope |-> "hytale:server hytale:client",
             iss |-> "https://sessions." \o LOCAL_DOMAIN, iat |-> now,
             exp |-> now + LOCAL_TTL, jti |-> NULL,
             cnf |-> IF certFingerprint # NULL THEN certFingerprint ELSE NULL,
             entitlements |-> <<"game.base">>, profile |-> NULL]
    IN  [Answer(200) EXCEPT
            !.accessToken = localGenerateToken(tokenPayload),
            !.refreshToken = localGenerateSessionToken(uuid, now),
            !.expiresAt = now + LOCAL_TTL]

handleTokenExchange(body, uuid, name, now) ==
    LET payload == readPayload(body.authorizationGrant)
        audience == IF hasMembers(payload) THEN payload.aud ELSE NULL
        id == IF hasMembers(payload) /\ payload.sub # NULL THEN payload.sub
              ELSE uuid
        nm == IF hasMembers(payload) /\ payload.name # NULL THEN payload.name
              ELSE name
        certFingerprint == IF body.x509Fingerprint # NULL
                           THEN body.x509Fingerprint
                           ELSE IF body.certFingerprint # NULL
                           THEN body.certFingerprint
                           ELSE body.fingerprint
        tokenPayload ==
            [kind |-> "object", sub |-> id, name |-> nm, username |-> nm,
             aud |-> audience, scope |-> "hytale:server hytale:client",
             iss |-> "https://sessions." \o LOCAL_DOMAIN, iat |-> now,
             exp |-> now + LOCAL_TTL, jti |-> NULL,
             cnf |-> IF certFingerprint # NULL THEN certFingerprint ELSE NULL,
             entitlements |-> <<"game.base">>, profile |-> NULL]
    IN  [Answer(200) EXCEPT
            !.accessToken = localGenerateToken(tokenPayload),
            !.refreshToken = localGenerateSessionToken(id, now),
            !.expiresAt = now + LOCAL_TTL]

\* the handler routeRequest dispatches a path to, in the order of its tests
route(path) ==
    IF path = "/health" \/ path = "/" THEN "health"
    ELSE IF path = "/favicon.ico" THEN "favicon"
    ELSE IF path = "/.well-known/jwks.json" \/ path = "/jwks.json" THEN "jwks"
    ELSE IF path = "/game-session/new" THEN "handleGameSessionNew"
    ELSE IF path = "/game-session/refresh" THEN "handleGameSessionRefresh"
    ELSE IF includes(path, "/game-session/child") THEN "handleGameSessionChild"
    ELSE IF includes(path, "/authorize") \/ includes(path, "/auth-grant")
    THEN "handleAuthorizationGrant"
    ELSE IF path = "/game-session/exchange" \/ includes(path, "/auth-token")
    THEN "handleTokenExchange"
    ELSE "other"

\* the answer of the handler routeRequest dispatches r to; rn holds what
\* crypto.randomUUID() and Date.now() return while r is served
dispatch(r, rn) ==
    LET ctx == routeContext(r.body, r.authorization, rn.uuid)
        handler == route(r.path)
    IN  IF handler = "handleGameSessionNew"
        THEN handleGameSessionNew(r.body, ctx.uuid, ctx.name, rn.now)
        ELSE IF handler = "handleGameSessionRefresh"
        THEN handleGameSessionRefresh(r.body, ctx.uuid, ctx.name, rn.now)
        ELSE IF handler = "handleAuthorizationGrant"
        THEN handleAuthorizationGrant(r.body, ctx.uuid, ctx.name,
                                      rn.audience, rn.now)
        ELSE IF handler = "handleGameSessionChild"
        THEN handleGameSessionChild(r.body, ctx.uuid, ctx.name, rn.now,
                                    rn.later)
        ELSE IF r.path = "/game-session" /\ r.method = "DELETE"
        THEN handleGameSessionDelete(r.authorization)
        ELSE handleTokenExchange(r.body, ctx.uuid, ctx.name, rn.now)

routeRequest(r, rn) ==
    IF maybeRedirectToIssuer(r) # NULL
    THEN [Answer(307) EXCEPT !.location = maybeRedirectToIssuer(r)]
    ELSE dispatch(r, rn)

(***************************************************************************)
(* Requests to the server.  handleRequest has collected the body and       *)
(* parsed it as JSON ({} when it does not parse).                          *)
(***************************************************************************)
NoReq == [method |-> "none"]
NoRes == [status |-> 0]
NoRnd == [uuid |-> NULL, audience |-> NULL, now |-> 0, later |-> 0]

EmptyBody ==
    [uuid |-> NULL, name |-> NULL, identityToken |-> NoToken,
     sessionToken |-> NoToken, accessToken |-> NoToken,
     authorizationGrant |-> NoToken, aud |-> NULL, audience |-> NULL,
     server_id |-> NULL, x509Fingerprint |-> NULL, certFingerprint |-> NULL,
     fingerprint |-> NULL, scopes |-> NoScopes]

ServerHosts == {"sessions.sanasol.ws", "play.example.org"}
EdDSAHeader == Header("EdDSA", KEY_ID, "JWT")
FullClaims == Claims("u2", "Bob", "Carol", "s9", "hytale:server hytale:client", NULL)
JwtShaped(doc) == TokenOf(3, Part(EdDSAHeader), Part(doc))

\* three-part EdDSA tokens over every combination of claims, and one that
\* names its issuer
WellFormedTokens ==
    {JwtShaped(c) :
        c \in ClaimDocs({NULL, "u2"}, {NULL, "Bob"}, {NULL, "Carol"},
                        {NULL, "s9"}, {"hytale:server hytale:client"}, {NULL})}
    \cup {JwtShaped([FullClaims EXCEPT !.iss = "https://sessions.sanasol.ws"])}

\* the wrong number of parts, another algorithm, text that is not base64,
\* a payload that is not JSON, a payload that is the JSON value null
MalformedTokens ==
    {TokenOf(n, Part(EdDSAHeader), Part(FullClaims)) :
        n \in (1..MaxParts) \ {3}}
    \cup {TokenOf(3, Part(h), Part(FullClaims)) :
        h \in HeaderDocs \ {EdDSAHeader}}
    \cup {TokenOf(3, Part(EdDSAHeader), BadB64Part(FullClaims)),
          TokenOf(3, BadB64Part(EdDSAHeader), Part(FullClaims)),
          JwtShaped(Garbage), JwtShaped(JsonNull)}

PresentedTokens == {NoToken} \cup WellFormedTokens \cup MalformedTokens

BearerClaims == Claims("u3", "Dan", NULL, NULL, "hytale:server", NULL)
BearerTokens ==
    {NoToken, JwtShaped(BearerClaims),
     JwtShaped([BearerClaims EXCEPT !.iss = "https://SESSIONS.sanasol.ws"]),
     JwtShaped([BearerClaims EXCEPT !.iss = "localhost:3000"]),
     TokenOf(3, Part(Header("HS256", KEY_ID, "JWT")), Part(BearerClaims)),
     TokenOf(1, Part(Garbage), Part(Garbage))}

Request(path, host, authorization, body) ==
    [method |-> "POST", path |-> path, host |-> host,
     authorization |-> authorization, body |-> body]

CommonBodies ==
    {[EmptyBody EXCEPT !.uuid = u, !.name = n] :
        u \in {NULL, "u1"}, n \in {NULL, "Alice"}}

AudienceBodies(b) ==
    {[b EXCEPT !.aud = a, !.audience = au, !.server_id = si] :
        a \in {NULL, "s1"}, au \in {NULL, "s2"}, si \in {NULL, "s3"}}

FingerprintBodies(b) ==
    {[b EXCEPT !.x509Fingerprint = x, !.certFingerprint = c, !.fingerprint = f] :
        x \in {NULL, "FP1"}, c \in {NULL, "FP2"}, f \in {NULL, "FP3"}}

\* handleRequest: the body has been read, routeRequest is about to run
HandleRequest ==
    /\ Idle
    /\ \E h \in ServerHosts, a \in BearerTokens, b \in CommonBodies :
        \/ req' = Request("/game-session/new", h, a, b)
        \/ \E t \in PresentedTokens :
            req' = Request("/game-session/refresh", h, a,
                           [b EXCEPT !.sessionToken = t])
        \/ \E t \in PresentedTokens, b2 \in AudienceBodies(b) :
            req' = Request("/game-session/authorize", h, a,
                           [b2 EXCEPT !.identityToken = t])
        \/ \E t \in PresentedTokens, b2 \in FingerprintBodies(b) :
            req' = Request("/server-join/auth-token", h, a,
                           [b2 EXCEPT !.authorizationGrant = t])
        \/ \E sc \in ScopeInputs :
            req' = Request("/game-session/child", h, a,
                           [b EXCEPT !.scopes = sc])
        \/ req' = [Request("/game-session", h, a, b) EXCEPT
                       !.method = "DELETE"]
    /\ res' = NoRes
    /\ rnd' = NoRnd
    /\ UNCHANGED <<call, ret, agentVars, keyVars, routeVars, sideVars>>

Serving == req.method # "none" /\ res = NoRes

\* routeRequest answers 307 before it looks at the path
RedirectToIssuer ==
    /\ Serving
    /\ maybeRedirectToIssuer(req) # NULL
    /\ res' = routeRequest(req, rnd)
    /\ UNCHANGED <<call, ret, req, rnd, agentVars, keyVars, routeVars, sideVars>>

\* routeRequest reaches the handler of the path
Routed(handler) ==
    /\ Serving
    /\ maybeRedirectToIssuer(req) = NULL
    /\ route(req.path) = handler

\* what crypto.randomUUID() returns to routeRequest for the fallback uuid and
\* to handleAuthorizationGrant for the fallback audience, where they call it
FallbackUuids == IF req.body.uuid # NULL THEN {NULL} ELSE GenIds
FallbackAudiences ==
    IF req.body.aud # NULL \/ req.body.audience # NULL
       \/ req.body.server_id # NULL
    THEN {NULL} ELSE GenIds

HandleGameSessionNew ==
    /\ Routed("handleGameSessionNew")
    /\ \E g \in FallbackUuids, now \in Times :
        rnd' = [uuid |-> g, audience |-> NULL, now |-> now,
                later |-> now]
    /\ res' = routeRequest(req, rnd')
    /\ UNCHANGED <<call, ret, req, agentVars, keyVars, routeVars, sideVars>>

HandleGameSessionRefresh ==
    /\ Routed("handleGameSessionRefresh")
    /\ \E g \in FallbackUuids, now \in Times :
        rnd' = [uuid |-> g, audience |-> NULL, now |-> now,
                later |-> now]
    /\ res' = routeRequest(req, rnd')
    /\ UNCHANGED <<call, ret, req, agentVars, keyVars, routeVars, sideVars>>

HandleAuthorizationGrant ==
    /\ Routed("handleAuthorizationGrant")
    /\ \E g \in FallbackUuids, ga \in FallbackAudiences, now \in Times :
        rnd' = [uuid |-> g, audience |-> ga, now |-> now, later |-> now]
    /\ res' = routeRequest(req, rnd')
    /\ UNCHANGED <<call, ret, req, agentVars, keyVars, routeVars, sideVars>>

HandleTokenExchange ==
    /\ Routed("handleTokenExchange")
    /\ \E g \in FallbackUuids, now \in Times :
        rnd' = [uuid |-> g, audience |-> NULL, now |-> now,
                later |-> now]
    /\ res' = routeRequest(req, rnd')
    /\ UNCHANGED <<call, ret, req, agentVars, keyVars, routeVars, sideVars>>

\* the clock may tick between two calls of Date.now() in one handler
HandleGameSessionChild ==
    /\ Routed("handleGameSessionChild")
    /\ \E g \in FallbackUuids, now \in Times, tick \in {0, 1} :
        rnd' = [uuid |-> g, audience |-> NULL, now |-> now,
                later |-> now + tick]
    /\ res' = routeRequest(req, rnd')
    /\ UNCHANGED <<call, ret, req, agentVars, keyVars, routeVars, sideVars>>

HandleGameSessionDelete ==
    /\ Routed("other")
    /\ req.path = "/game-session"
    /\ req.method = "DELETE"
    /\ \E g \in FallbackUuids :
        rnd' = [uuid |-> g, audience |-> NULL, now |-> 0, later |-> 0]
    /\ res' = routeRequest(req, rnd')
    /\ UNCHANGED <<call, ret, req, agentVars, keyVars, routeVars, sideVars>>

\* res.end(): the response is on the wire, the turn is over
ResponseEnd ==
    /\ res # NoRes
    /\ req' = NoReq
    /\ res' = NoRes
    /\ rnd' = NoRnd
    /\ UNCHANGED <<call, ret, agentVars, keyVars, routeVars, sideVars>>

ServerNext ==
    \/ HandleRequest
    \/ RedirectToIssuer
    \/ HandleGameSessionNew
    \/ HandleGameSessionRefresh
    \/ HandleAuthorizationGrant
    \/ HandleTokenExchange
    \/ HandleGameSessionChild
    \/ HandleGameSessionDelete
    \/ ResponseEnd

(***************************************************************************)
(* The DualAuth agent inside the game server.  A Java String reference is  *)
(* a TLA+ string, NULL for the null reference; a Boolean reference is      *)
(* "true", "false" or NULL.  The thread-locals of DualAuthContext are      *)
(* functions of the thread, its two ConcurrentHashMaps functions of the    *)
(* key with NULL for a key that has no mapping.  An advice or a method of  *)
(* DualAuthContext runs on one thread, touches the thread-locals of that   *)
(* thread only and the maps through compute and get, which are atomic: it  *)
(* is one step.  setIssuer, setPlayerUuid and setOmni run where            *)
(* LambdaContextAdvice calls them.                                         *)
(***************************************************************************)
Threads == {"worker-1", "worker-2"}         \* the threads of the Executor

\* JWK documents as the launcher writes them into a token header
PublicJwk == "{\"x\":\"X1\"}"
PrivateJwk == "{\"x\":\"X1\",\"d\":\"D1\"}"
Jwks == {PublicJwk, PrivateJwk}

AgentIssuers == {"https://auth.example.org"}
PlayerUuids == {"p1"}

\* a String argument of a session-service method: whether it is longer
\* than 30 characters, how many dots it has, what its header and payload
\* carry, and whether its signature verifies under the key in its header
JavaString(long, dots, iss, sub, jwk, verifies, cnf) ==
    [long |-> long, dots |-> dots, iss |-> iss, sub |-> sub, jwk |-> jwk,
     verifies |-> verifies, cnf |-> cnf]

OmniToken == JavaString(TRUE, 2, "https://auth.example.org", "p1",
                        PrivateJwk, TRUE, NULL)
PublicOmniToken == JavaString(TRUE, 2, "https://auth.example.org", "p1",
                              PublicJwk, TRUE, NULL)
ForgedOmniToken == JavaString(TRUE, 2, "https://auth.example.org", "p1",
                              PrivateJwk, FALSE, NULL)
FederatedToken == JavaString(TRUE, 2, "https://auth.example.org", "p1",
                             NULL, TRUE, NULL)
AnonymousToken == JavaString(TRUE, 2, NULL, NULL, PublicJwk, TRUE, NULL)
ServerAudience == JavaString(FALSE, 0, NULL, NULL, NULL, FALSE, NULL)

AgentTokens == {OmniToken, PublicOmniToken, ForgedOmniToken, FederatedToken,
                AnonymousToken}
\* the tokens the game server passes to the session service
PresentedAgentTokens == {OmniToken, ForgedOmniToken, FederatedToken}
\* the arguments of a lambda$ method of SessionServiceClient
LambdaArguments ==
    {<<a>> : a \in AgentTokens \cup {ServerAudience}}
    \cup {<<ServerAudience, a>> : a \in {OmniToken, FederatedToken}}
    \cup {<<AnonymousToken, a>> : a \in {OmniToken, FederatedToken}}

NullToken == [kind |-> "null"]           \* the null reference to a token

\* DualAuthHelper
countDots(st) == st.dots
extractIssuerFromToken(st) == st.iss
extractSubjectFromToken(st) == st.sub
extractJwkFromToken(st) == st.jwk
hasEmbeddedJwk(token) == token.jwk # NULL

\* EmbeddedJwkVerifier.createDynamicSessionToken: a server session token
\* for the issuer, bound to the fingerprint
createDynamicSessionToken(issuer, clientFingerprint) ==
    JavaString(TRUE, 2, issuer, "server", NULL, TRUE, clientFingerprint)

\* the server's issuer policy: HYTALE_TRUST_ALL_ISSUERS and
\* HYTALE_TRUSTED_ISSUERS
DefaultPolicy == [trustAllIssuers |-> TRUE, trustedIssuers |-> {}]
Policies == {DefaultPolicy, [trustAllIssuers |-> FALSE, trustedIssuers |-> {}]}
acceptsSelfSigned(p, issuer) == p.trustAllIssuers \/ issuer \in p.trustedIssuers

\* DualAuthContext
hasPrivate(jwk) == includes(jwk, "\"d\"")         \* jwk.contains("\"d\"")

\* what each of the two compute calls of setJwk leaves under its key
computeJwk(existingVal, jwk) ==
    IF existingVal # NULL /\ hasPrivate(existingVal) /\ ~hasPrivate(jwk)
    THEN existingVal ELSE jwk

\* setJwk that stores its argument in all three slots
setJwk_overwrites(jwk0, issuer, uuid, byIssuer, byPlayer, jwk) ==
    [currentJwk |-> jwk,
     globalJwkCache |->
         IF jwk # NULL /\ issuer # NULL
         THEN [byIssuer EXCEPT ![issuer] = jwk] ELSE byIssuer,
     globalPlayerJwkCache |->
         IF jwk # NULL /\ uuid # NULL
         THEN [byPlayer EXCEPT ![uuid] = jwk] ELSE byPlayer]

\* setJwk on a thread whose locals are jwk0, issuer, uuid: the three slots
\* it writes
setJwk(jwk0, issuer, uuid, byIssuer, byPlayer, jwk) ==
    IF jwk = NULL
    THEN [currentJwk |-> NULL, globalJwkCache |-> byIssuer,
          globalPlayerJwkCache |-> byPlayer]
    ELSE [currentJwk |->
              IF (jwk0 # NULL /\ hasPrivate(jwk0)) /\ ~hasPrivate(jwk)
              THEN jwk0 ELSE jwk,
          globalJwkCache |->
              IF issuer # NULL
              THEN [byIssuer EXCEPT ![issuer] = computeJwk(@, jwk)]
              ELSE byIssuer,
          globalPlayerJwkCache |->
              IF uuid # NULL
              THEN [byPlayer EXCEPT ![uuid] = computeJwk(@, jwk)]
              ELSE byPlayer]

getJwk(jwk, issuer, uuid, byIssuer, byPlayer) ==
    IF jwk # NULL /\ ~hasPrivate(jwk) /\ uuid # NULL
       /\ byPlayer[uuid] # NULL /\ hasPrivate(byPlayer[uuid])
    THEN byPlayer[uuid]
    ELSE IF jwk # NULL /\ ~hasPrivate(jwk) /\ issuer # NULL
            /\ byIssuer[issuer] # NULL /\ hasPrivate(byIssuer[issuer])
    THEN byIssuer[issuer]
    ELSE IF jwk # NULL THEN jwk
    ELSE IF uuid # NULL /\ byPlayer[uuid] # NULL THEN byPlayer[uuid]
    ELSE IF issuer # NULL THEN byIssuer[issuer]
    ELSE NULL

isOmni(t) == isCurrentTokenOmni[t] # NULL /\ isCurrentTokenOmni[t] = "true"

\* the call a thread completed last, and what it returned
NoFuture == [kind |-> "null"]
CompletedFuture(token) == [kind |-> "completed", token |-> token]
SessionServiceFuture == [kind |-> "session-service"]
Completed(t, op) == [thread |-> t, op |-> op]

AgentUnchanged == UNCHANGED <<jsVars, policy, keyVars, routeVars, sideVars>>

SetJwk(t) ==
    /\ \E jwk \in Jwks \cup {NULL} :
        LET written == setJwk(currentJwk[t], currentIssuer[t],
                              currentPlayerUuid[t], globalJwkCache,
                              globalPlayerJwkCache, jwk)
        IN  /\ currentJwk' = [currentJwk EXCEPT ![t] = written.currentJwk]
            /\ globalJwkCache' = written.globalJwkCache
            /\ globalPlayerJwkCache' = written.globalPlayerJwkCache
            /\ last' = [thread |-> t, op |-> "setJwk", jwk |-> jwk]
    /\ UNCHANGED <<currentIssuer, currentPlayerUuid, currentUsername,
                   isCurrentTokenOmni>>
    /\ AgentUnchanged

GetJwk(t) ==
    /\ last' = [thread |-> t, op |-> "getJwk",
                returned |-> getJwk(currentJwk[t], currentIssuer[t],
                                    currentPlayerUuid[t], globalJwkCache,
                                    globalPlayerJwkCache)]
    /\ UNCHANGED <<currentIssuer, currentJwk, currentPlayerUuid,
                   currentUsername, isCurrentTokenOmni, globalJwkCache,
                   globalPlayerJwkCache>>
    /\ AgentUnchanged

Clear(t) ==
    /\ currentIssuer' = [currentIssuer EXCEPT ![t] = NULL]
    /\ currentJwk' = [currentJwk EXCEPT ![t] = NULL]
    /\ currentPlayerUuid' = [currentPlayerUuid EXCEPT ![t] = NULL]
    /\ currentUsername' = [currentUsername EXCEPT ![t] = NULL]
    /\ isCurrentTokenOmni' = [isCurrentTokenOmni EXCEPT ![t] = NULL]
    /\ last' = Completed(t, "clear")
    /\ UNCHANGED <<globalJwkCache, globalPlayerJwkCache>>
    /\ AgentUnchanged

\* resetForNewConnection that leaves the JWK of the thread in place
ResetForNewConnection_keepsJwk(t) ==
    /\ currentIssuer' = [currentIssuer EXCEPT ![t] = NULL]
    /\ currentPlayerUuid' = [currentPlayerUuid EXCEPT ![t] = NULL]
    /\ currentUsername' = [currentUsername EXCEPT ![t] = NULL]
    /\ isCurrentTokenOmni' = [isCurrentTokenOmni EXCEPT ![t] = NULL]
    /\ last' = Completed(t, "resetForNewConnection")
    /\ UNCHANGED <<currentJwk, globalJwkCache, globalPlayerJwkCache>>
    /\ AgentUnchanged

ResetForNewConnection(t) ==
    /\ currentIssuer' = [currentIssuer EXCEPT ![t] = NULL]
    /\ currentJwk' = [currentJwk EXCEPT ![t] = NULL]
    /\ currentPlayerUuid' = [currentPlayerUuid EXCEPT ![t] = NULL]
    /\ currentUsername' = [currentUsername EXCEPT ![t] = NULL]
    /\ isCurrentTokenOmni' = [isCurrentTokenOmni EXCEPT ![t] = NULL]
    /\ last' = Completed(t, "resetForNewConnection")
    /\ UNCHANGED <<globalJwkCache, globalPlayerJwkCache>>
    /\ AgentUnchanged

SoftClear(t) ==
    /\ isCurrentTokenOmni' = [isCurrentTokenOmni EXCEPT ![t] = "false"]
    /\ currentJwk' = [currentJwk EXCEPT ![t] = NULL]
    /\ last' = Completed(t, "softClear")
    /\ UNCHANGED <<currentIssuer, currentPlayerUuid, currentUsername,
                   globalJwkCache, globalPlayerJwkCache>>
    /\ AgentUnchanged

\* SessionServiceClientTransformer
\* the first argument LambdaContextAdvice takes the context from, 0 if none
contextArgument(args) ==
    LET carries(i) == /\ args[i].long
                      /\ countDots(args[i]) >= 2
                      /\ extractIssuerFromToken(args[i]) # NULL
    IN  IF \E i \in 1..Len(args) : carries(i)
        THEN CHOOSE i \in 1..Len(args) :
                 carries(i) /\ \A j \in 1..(i - 1) : ~carries(j)
        ELSE 0

\* LambdaContextAdvice.enter on thread t with the arguments of the lambda
LambdaContextAdvice_enter(t, args) ==
        LET i == contextArgument(args)
            iss == IF i = 0 THEN NULL ELSE extractIssuerFromToken(args[i])
            sub == IF i = 0 THEN NULL ELSE extractSubjectFromToken(args[i])
            jwk == IF i = 0 THEN NULL ELSE extractJwkFromToken(args[i])
            written == setJwk(NULL, iss, sub, globalJwkCache,
                              globalPlayerJwkCache, jwk)
        IN  /\ currentIssuer' = [currentIssuer EXCEPT ![t] = iss]
            /\ currentPlayerUuid' = [currentPlayerUuid EXCEPT ![t] = sub]
            /\ currentUsername' = [currentUsername EXCEPT ![t] = NULL]
            /\ currentJwk' = [currentJwk EXCEPT ![t] = written.currentJwk]
            /\ globalJwkCache' = written.globalJwkCache
            /\ globalPlayerJwkCache' = written.globalPlayerJwkCache
            /\ isCurrentTokenOmni' =
                   [isCurrentTokenOmni EXCEPT ![t] =
                       IF i = 0 THEN NULL
                       ELSE IF jwk # NULL THEN "true" ELSE "false"]
            /\ last' = Completed(t, "LambdaContextAdvice")
            /\ AgentUnchanged

LambdaContextAdvice(t) ==
    \E args \in LambdaArguments : LambdaContextAdvice_enter(t, args)

BypassedMethods == {"requestAuthorizationGrantAsync",
                    "exchangeAuthGrantForTokenAsync"}

\* OfflineBypassAdvice.enter: the future it returns, NoFuture for null;
\* freshToken is what createDynamicSessionToken returned
OfflineBypassAdvice_enter(t, tokenArg, freshToken, methodName) ==
    IF isOmni(t) \/ hasEmbeddedJwk(tokenArg)
    THEN IF methodName = "exchangeAuthGrantForTokenAsync"
            /\ freshToken # NullToken
         THEN CompletedFuture(freshToken)
         ELSE CompletedFuture(tokenArg)
    ELSE NoFuture

\* a call of a bypassed method: enter, the method itself unless enter
\* returned a future, exit
OfflineBypassAdvice(t) ==
    \E methodName \in BypassedMethods, tokenArg \in PresentedAgentTokens,
       clientFingerprint \in {NULL, "FP"}, created \in BOOLEAN :
        LET freshToken ==
                IF created
                THEN createDynamicSessionToken(currentIssuer[t],
                                               clientFingerprint)
                ELSE NullToken
            entered == OfflineBypassAdvice_enter(t, tokenArg, freshToken,
                                                 methodName)
        IN  /\ last' = [thread |-> t, op |-> methodName,
                        tokenArg |-> tokenArg, entered |-> entered,
                        returned |-> IF entered # NoFuture THEN entered
                                     ELSE SessionServiceFuture]
            /\ UNCHANGED <<currentIssuer, currentJwk, currentPlayerUuid,
                           currentUsername, isCurrentTokenOmni,
                           globalJwkCache, globalPlayerJwkCache>>
            /\ AgentUnchanged

AgentNext ==
    \E t \in Threads :
        \/ SetJwk(t)
        \/ GetJwk(t)
        \/ Clear(t)
        \/ ResetForNewConnection(t)
        \/ SoftClear(t)
        \/ LambdaContextAdvice(t)
        \/ OfflineBypassAdvice(t)

(***************************************************************************)
(* Connections of several players on the pooled threads (ConnectionSpec):  *)
(* the server runs a lambda of SessionServiceClient for one connection      *)
(* after another on whichever thread of the Executor is free, and           *)
(* LambdaContextAdvice resets the context of the thread and takes the new   *)
(* one from the token of the connection.  Each player presents tokens that  *)
(* embed the player's own key, or none; all players use one issuer.         *)
(***************************************************************************)
Players == {"p1", "p2"}

PublicJwkOf(p) == "{\"x\":\"X-" \o p \o "\"}"
PrivateJwkOf(p) == "{\"x\":\"X-" \o p \o "\",\"d\":\"D-" \o p \o "\"}"
JwksOf(p) == {PublicJwkOf(p), PrivateJwkOf(p)}

\* the tokens a player's launcher presents
TokensOf(p) ==
    {JavaString(TRUE, 2, "https://auth.example.org", p, jwk, TRUE, NULL) :
        jwk \in JwksOf(p) \cup {NULL}}

\* a lambda of SessionServiceClient starts for a connection of player p
Connect(t) ==
    \E p \in Players : \E token \in TokensOf(p) :
        LambdaContextAdvice_enter(t, <<token>>)

ConnectionNext ==
    \E t \in Threads :
        \/ Connect(t)
        \/ GetJwk(t)
        \/ ResetForNewConnection(t)

ConnectionStart ==
    /\ currentIssuer = [t \in Threads |-> NULL]
    /\ currentJwk = [t \in Threads |-> NULL]
    /\ currentPlayerUuid = [t \in Threads |-> NULL]
    /\ currentUsername = [t \in Threads |-> NULL]
    /\ isCurrentTokenOmni = [t \in Threads |-> NULL]
    /\ globalJwkCache = [issuer \in AgentIssuers |-> NULL]
    /\ globalPlayerJwkCache = [uuid \in Players |-> NULL]
    /\ last = [thread |-> NULL, op |-> "none"]

(***************************************************************************)
(* Routing of the session-service calls (UrlSpec).  The game server has    *)
(* one SessionServiceClient, whose methods build their request from its    *)
(* URL field.  UrlRoutingAdvice runs at the entry of a routed method, on   *)
(* the thread of the caller, and writes that field; nothing orders the     *)
(* advice and the method body of one call against those of another, so a   *)
(* step is one access to the field or to the saved URL.                    *)
(***************************************************************************)
OfficialSessionUrl == "https://sessions.hytale.com"
OfficialIssuer == "https://sessions.hytale.com"
RoutedIssuers == AgentIssuers \cup {OfficialIssuer, NULL}
RoutedMethods == {"requestAuthorizationGrantAsync", "refreshSessionAsync",
                  "validateSessionAsync", "exchangeAuthGrantForTokenAsync"}

\* DualAuthHelper
isOfficialIssuer(issuer) == includes(issuer, "hytale.com")
getSessionUrlForIssuer(issuer) == issuer

NoRequest == [method |-> NULL, issuer |-> NULL, url |-> NULL]

UrlUnchanged ==
    UNCHANGED <<jsVars, agentVars, keyVars, routeVars, metricVars,
                telemetryVars>>

\* a thread calls a routed method; the advice reads the URL field
ReadUrlField(t) ==
    /\ upc[t] = "idle"
    /\ \E methodName \in RoutedMethods :
           upc' = [upc EXCEPT ![t] = methodName]
    /\ currentUrl' = [currentUrl EXCEPT ![t] = sessionServiceUrl]
    /\ UNCHANGED <<sessionServiceUrl, originalSessionUrl, requested>>
    /\ UrlUnchanged

\* DualAuthContext.saveOriginalSessionUrl: the first URL it is given
SaveOriginalSessionUrl(t) ==
    /\ upc[t] \in RoutedMethods
    /\ upc' = [upc EXCEPT ![t] = <<"saved", upc[t]>>]
    /\ originalSessionUrl' = IF originalSessionUrl = NULL THEN currentUrl[t]
                             ELSE originalSessionUrl
    /\ UNCHANGED <<sessionServiceUrl, currentUrl, requested>>
    /\ UrlUnchanged

\* the rest of UrlRoutingAdvice.enter: the URL for the issuer of the thread
\* goes into the field unless currentUrl is that URL already
UrlRoutingAdvice(t) ==
    /\ upc[t] \in {"saved"} \X RoutedMethods
    /\ upc' = [upc EXCEPT ![t] = <<"routed", upc[t][2]>>]
    /\ LET issuer == currentIssuer[t]
       IN  IF issuer # NULL /\ ~isOfficialIssuer(issuer)
           THEN LET issuerUrl == getSessionUrlForIssuer(issuer)
                IN  sessionServiceUrl' =
                        IF issuerUrl # currentUrl[t] THEN issuerUrl
                        ELSE sessionServiceUrl
           ELSE sessionServiceUrl' =
                    IF originalSessionUrl # NULL
                       /\ originalSessionUrl # currentUrl[t]
                    THEN originalSessionUrl ELSE sessionServiceUrl
    /\ UNCHANGED <<originalSessionUrl, currentUrl, requested>>
    /\ UrlUnchanged

\* the body of the routed method sends its request to the URL in the field
SendRequest(t) ==
    /\ upc[t] \in {"routed"} \X RoutedMethods
    /\ upc' = [upc EXCEPT ![t] = "idle"]
    /\ requested' = [requested EXCEPT ![t] =
                         [method |-> upc[t][2], issuer |-> currentIssuer[t],
                          url |-> sessionServiceUrl]]
    /\ UNCHANGED <<sessionServiceUrl, originalSessionUrl, currentUrl>>
    /\ UrlUnchanged

UrlNext ==
    \E t \in Threads :
        \/ ReadUrlField(t)
        \/ SaveOriginalSessionUrl(t)
        \/ UrlRoutingAdvice(t)
        \/ SendRequest(t)

UrlStart ==
    /\ sessionServiceUrl = OfficialSessionUrl
    /\ originalSessionUrl = NULL
    /\ upc = [t \in Threads |-> "idle"]
    /\ currentUrl = [t \in Threads |-> NULL]
    /\ requested = [t \in Threads |-> NoRequest]

(***************************************************************************)
(* The metrics service src/unnamed/part_000 (MetricSpec): the writers      *)
(* incCounter, addToCounter, setGauge and observeHistogram fill            *)
(* writeBuffer and call scheduleFlush; the callback it hands to            *)
(* setImmediate runs in a later turn of the event loop.  A JavaScript      *)
(* object is a function of its own property names.  Redis is connected.    *)
(***************************************************************************)
FPS_BUCKETS == <<15, 30, 45, 60, 90, 120, 144, 240>>
LATENCY_BUCKETS == <<10, 25, 50, 100, 150, 200, 300, 500, 1000>>
FRAME_TIME_BUCKETS == <<5, 10, 16, 20, 33, 50, 100, 200>>
MEMORY_BUCKETS == <<512, 1024, 2048, 4096, 8192, 16384>>
SESSION_DURATION_BUCKETS == <<60, 300, 600, 1800, 3600, 7200, 14400, 28800>>
CONNECT_TIME_BUCKETS == <<50, 100, 200, 500, 1000, 2000, 5000>>
WORLD_LOAD_BUCKETS == <<500, 1000, 2000, 5000, 10000, 20000>>

EmptyObject == [k \in {} |-> 0]
\* o[k] || 0
orZero(o, k) == IF k \in DOMAIN o THEN o[k] ELSE 0
\* o with o[k] = v
assign(o, k, v) == [x \in DOMAIN o \cup {k} |-> IF x = k THEN v ELSE o[x]]
\* o[k] = (o[k] || 0) + n
addTo(o, k, n) == assign(o, k, orZero(o, k) + n)
\* if (!o[prefix]) o[prefix] = {}; o[prefix][label] = (o[prefix][label] || 0) + 1
addToNested(o, prefix, label) ==
    assign(o, prefix,
           addTo(IF prefix \in DOMAIN o THEN o[prefix] ELSE EmptyObject,
                 label, 1))

EmptyBuffer == [counters |-> EmptyObject, gauges |-> EmptyObject,
                histograms |-> EmptyObject, avgstates |-> EmptyObject,
                labeled |-> EmptyObject]

NoLabels == [method |-> NULL, status |-> NULL, endpoint |-> NULL,
             language |-> NULL, reason |-> NULL, event |-> NULL,
             success |-> NULL, game_mode |-> NULL, from |-> NULL,
             to |-> NULL]
orUnknown(s) == IF s # NULL THEN s ELSE "unknown"

isConnected == TRUE

\* scheduleFlush without the test of flushPending
scheduleFlush_unguarded(pending, queued) ==
    IF ~isConnected THEN [flushPending |-> pending, immediates |-> queued]
    ELSE [flushPending |-> TRUE, immediates |-> queued + 1]

\* scheduleFlush: flushPending and the number of queued callbacks after it
scheduleFlush(pending, queued) ==
    IF pending \/ ~isConnected
    THEN [flushPending |-> pending, immediates |-> queued]
    ELSE [flushPending |-> TRUE, immediates |-> queued + 1]

\* incCounter up to its call of scheduleFlush: the buffer it leaves
incCounter(wb, name, labels) ==
    LET labeled(prefix, label) ==
            [wb EXCEPT !.labeled = addToNested(@, prefix, label)]
        counter(key) == [wb EXCEPT !.counters = addTo(@, key, 1)]
    IN  IF name = "requests_total"
        THEN LET c1 == addTo(wb.counters, "requests_total", 1)
                 c2 == IF labels.method # NULL
                       THEN addTo(c1, "requests_method_" \o labels.method, 1)
                       ELSE c1
                 c3 == IF labels.status # NULL
                       THEN addTo(c2, "requests_status_" \o labels.status, 1)
                       ELSE c2
             IN  [wb EXCEPT
                     !.counters = c3,
                     !.labeled =
                         IF labels.endpoint # NULL
                         THEN addToNested(@, "endpoints",
                                          splitFirst(labels.endpoint, "?"))
                         ELSE @]
        ELSE IF name \in {"auth_grants_total", "sessions_created_total",
                          "telemetry_received_total"}
        THEN counter(name)
        ELSE IF name = "language"
        THEN labeled("languages", orUnknown(labels.language))
        ELSE IF name = "exit_reason"
        THEN labeled("exit_reasons", orUnknown(labels.reason))
        ELSE IF name = "event"
        THEN labeled("events", orUnknown(labels.event))
        ELSE IF name = "server_connect"
        THEN counter(IF labels.success = "true" THEN "server_connect_success"
                     ELSE "server_connect_failure")
        ELSE IF name = "server_disconnect"
        THEN labeled("disconnects", orUnknown(labels.reason))
        ELSE IF name = "world_joined"
        THEN labeled("world_joins", orUnknown(labels.game_mode))
        ELSE IF name = "state_transition"
        THEN labeled("state_transitions",
                     orUnknown(labels.from) \o "->" \o orUnknown(labels.to))
        ELSE wb

addToCounter(wb, name, value) ==
    IF name = "total_playtime_seconds"
    THEN [wb EXCEPT !.counters = addTo(@, "total_playtime_seconds", value)]
    ELSE wb

setGauge(wb, name, value) == [wb EXCEPT !.gauges = assign(@, name, value)]

\* the index of the first bucket that holds value, buckets.length if none
bucketIdx(buckets, value) ==
    IF \E i \in 1..Len(buckets) : value <= buckets[i]
    THEN (CHOOSE i \in 1..Len(buckets) :
              /\ value <= buckets[i]
              /\ \A j \in 1..(i - 1) : ~(value <= buckets[j])) - 1
    ELSE Len(buckets)

\* bucketMap of observeHistogram
bucketMap ==
    [fps |-> [buckets |-> FPS_BUCKETS, dist |-> "fps", avgKey |-> "fps"],
     session_avg_fps |-> [buckets |-> FPS_BUCKETS, dist |-> "session_avg_fps",
                          avgKey |-> NULL],
     latency |-> [buckets |-> LATENCY_BUCKETS, dist |-> "latency",
                  avgKey |-> "latency"],
     frame_time |-> [buckets |-> FRAME_TIME_BUCKETS, dist |-> "frame_time",
                     avgKey |-> "frame_time"],
     memory |-> [buckets |-> MEMORY_BUCKETS, dist |-> "memory",
                 avgKey |-> "memory"],
     session_duration |-> [buckets |-> SESSION_DURATION_BUCKETS,
                           dist |-> "session_duration",
                           avgKey |-> "session_duration"],
     connect_time |-> [buckets |-> CONNECT_TIME_BUCKETS,
                       dist |-> "connect_time", avgKey |-> "connect_time"],
     world_load_time |-> [buckets |-> WORLD_LOAD_BUCKETS,
                          dist |-> "world_load_time",
                          avgKey |-> "world_load_time"]]

\* observeHistogram: whether it returns before scheduleFlush, and the
\* buffer it leaves
observeHistogram(wb, name, value) ==
    IF name \notin DOMAIN bucketMap THEN [returns |-> TRUE, buffer |-> wb]
    ELSE LET config == bucketMap[name]
             bucketKey == ToString(bucketIdx(config.buckets, value))
             state == IF config.avgKey \in DOMAIN wb.avgstates
                      THEN wb.avgstates[config.avgKey]
                      ELSE [sum |-> 0, count |-> 0]
         IN  [returns |-> FALSE,
              buffer |->
                  [wb EXCEPT
                      !.histograms =
                          assign(@, config.dist,
                                 addTo(IF config.dist \in DOMAIN @
                                       THEN @[config.dist] ELSE EmptyObject,
                                       bucketKey, 1)),
                      !.avgstates =
                          IF config.avgKey # NULL
                          THEN assign(@, config.avgKey,
                                      [sum |-> state.sum + value,
                                       count |-> state.count + 1])
                          ELSE @]]

\* the pipeline the flush callback builds from a buffer and hands to exec
pipelineOf(buffer) ==
    [hincrbyfloat |-> buffer.counters,
     hset |-> [k \in DOMAIN buffer.gauges |-> ToString(buffer.gauges[k])],
     histograms |-> buffer.histograms,
     avgstates |->
         [k \in DOMAIN buffer.avgstates |->
             [sum |-> buffer.avgstates[k].sum # 0,
              count |-> buffer.avgstates[k].count # 0]],
     labeled |-> buffer.labeled]

MetricUnchanged ==
    UNCHANGED <<jsVars, agentVars, keyVars, routeVars, urlVars, telemetryVars>>

MetricCalls ==
    [fn : {"incCounter"}, name : {"requests_total"},
     labels : {NoLabels, [NoLabels EXCEPT !.method = "GET"],
               [NoLabels EXCEPT !.endpoint = "/health?x=1"]}]
    \cup [fn : {"incCounter"},
          name : {"auth_grants_total", "language", "no_such_counter"},
          labels : {NoLabels}]
    \cup [fn : {"addToCounter"},
          name : {"total_playtime_seconds", "no_such_counter"}, value : {2}]
    \cup [fn : {"setGauge"}, name : {"active_players"}, value : {1}]
    \cup [fn : {"observeHistogram"}, name : {"fps", "no_such_histogram"},
          value : {20, 500}]

\* what a call adds to the counters
incrementsOf(c) ==
    IF c.fn = "incCounter" THEN incCounter(EmptyBuffer, c.name, c.labels).counters
    ELSE IF c.fn = "addToCounter"
    THEN addToCounter(EmptyBuffer, c.name, c.value).counters
    ELSE EmptyObject

Written(c, wb, scheduled) ==
    /\ ncalls < MaxCalls
    /\ ncalls' = ncalls + 1
    /\ writeBuffer' = wb
    /\ LET s == IF scheduled THEN scheduleFlush(flushPending, immediates)
                ELSE [flushPending |-> flushPending,
                      immediates |-> immediates]
       IN  flushPending' = s.flushPending /\ immediates' = s.immediates
    /\ counted' = [k \in DOMAIN counted \cup DOMAIN incrementsOf(c) |->
                       orZero(counted, k) + orZero(incrementsOf(c), k)]
    /\ UNCHANGED pipelines
    /\ MetricUnchanged

IncCounter ==
    \E c \in MetricCalls :
        /\ c.fn = "incCounter"
        /\ Written(c, incCounter(writeBuffer, c.name, c.labels), TRUE)

AddToCounter ==
    \E c \in MetricCalls :
        /\ c.fn = "addToCounter"
        /\ Written(c, addToCounter(writeBuffer, c.name, c.value), TRUE)

SetGauge ==
    \E c \in MetricCalls :
        /\ c.fn = "setGauge"
        /\ Written(c, setGauge(writeBuffer, c.name, c.value), TRUE)

ObserveHistogram ==
    \E c \in MetricCalls :
        /\ c.fn = "observeHistogram"
        /\ LET o == observeHistogram(writeBuffer, c.name, c.value)
           IN  Written(c, o.buffer, ~o.returns)

\* the callback of setImmediate, up to its await of pipeline.exec()
Flush ==
    /\ immediates > 0
    /\ immediates' = immediates - 1
    /\ flushPending' = FALSE
    /\ writeBuffer' = EmptyBuffer
    /\ pipelines' = Append(pipelines, pipelineOf(writeBuffer))
    /\ UNCHANGED <<counted, ncalls>>
    /\ MetricUnchanged

MetricNext ==
    IncCounter \/ AddToCounter \/ SetGauge \/ ObserveHistogram \/ Flush

MetricStart ==
    /\ writeBuffer = EmptyBuffer
    /\ flushPending = FALSE
    /\ immediates = 0
    /\ pipelines = <<>>
    /\ counted = EmptyObject
    /\ ncalls = 0

(***************************************************************************)
(* The telemetry route src/src/routes/telemetry.js (TelemetrySpec).        *)
(* handleTelemetry is an async function: it runs to its next await in one  *)
(* turn of the event loop and resumes when the promise it awaits settles.  *)
(* The promises are those of the storage service, which fulfil, or reject  *)
(* when the storage operation fails.  A number that is absent from the     *)
(* body is 0: the handler tests numbers for truthiness only.               *)
(***************************************************************************)
NoTelemetry == [state |-> "idle"]
NoAnswer == [status |-> 0]
Acknowledged == [status |-> 200, success |-> TRUE, received |-> TRUE]

EmptyTelemetry ==
    [type |-> NULL, fps_avg |-> 0, frame_time_p99_ms |-> 0, latency_ms |-> 0,
     working_set_mb |-> 0, session_duration_seconds |-> 0,
     connected |-> NULL, language |-> NULL, exit_reason |-> NULL,
     total_duration_seconds |-> 0, avg_fps |-> 0, event_name |-> NULL,
     time_to_connect_ms |-> 0, success |-> FALSE, reason |-> NULL,
     load_time_ms |-> 0, game_mode |-> NULL, from_state |-> NULL,
     to_state |-> NULL]

\* what handleTelemetry does in order: calls of the metric writers, awaits
\* of storage operations, and sendJson
Metric(c) == [op |-> "metric", call |-> c]
Await(fn) == [op |-> "await", fn |-> fn]
SendJson == [op |-> "sendJson"]
IncCounterCall(name, labels) ==
    [fn |-> "incCounter", name |-> name, labels |-> labels]
Observe(name, value) ==
    IF value # 0
    THEN <<Metric([fn |-> "observeHistogram", name |-> name,
                   value |-> value])>>
    ELSE <<>>

handleTelemetry(body, authorization) ==
    LET tokenData == IF authorization # NoToken THEN parseToken(authorization)
                     ELSE NullResult
        playerUuid == IF tokenData # NullResult THEN tokenData.uuid ELSE NULL
        heartbeat ==
            <<Await("trackActivePlayer"), Await("updatePlayerState")>>
            \o Observe("fps", body.fps_avg)
            \o Observe("frame_time", body.frame_time_p99_ms)
            \o Observe("latency", body.latency_ms)
            \o Observe("memory", body.working_set_mb)
            \o Observe("session_duration", body.session_duration_seconds)
            \o (IF body.connected = "false"
                THEN <<Await("removePlayerFromAllServers")>> ELSE <<>>)
        session_start ==
            <<Await("updatePlayerHardware"),
              Metric(IncCounterCall("language",
                         [NoLabels EXCEPT
                             !.language = orUnknown(body.language)]))>>
        session_end ==
            <<Await("recordSessionEnd")>>
            \o (IF body.exit_reason # NULL
                THEN <<Metric(IncCounterCall("exit_reason",
                           [NoLabels EXCEPT !.reason = body.exit_reason]))>>
                ELSE <<>>)
            \o Observe("session_duration", body.total_duration_seconds)
            \o (IF body.total_duration_seconds # 0
                THEN <<Metric([fn |-> "addToCounter",
                               name |-> "total_playtime_seconds",
                               value |-> body.total_duration_seconds])>>
                ELSE <<>>)
            \o Observe("session_avg_fps", body.avg_fps)
            \o <<Await("removePlayerFromAllServers")>>
        event ==
            <<Metric(IncCounterCall("event",
                         [NoLabels EXCEPT !.event = body.event_name])),
              Await("recordEvent")>>
            \o (IF body.event_name = "server_connect"
                THEN Observe("connect_time", body.time_to_connect_ms)
                     \o <<Metric(IncCounterCall("server_connect",
                               [NoLabels EXCEPT
                                   !.success = IF body.success THEN "true"
                                               ELSE "false"]))>>
                ELSE IF body.event_name = "server_disconnect"
                THEN <<Metric(IncCounterCall("server_disconnect",
                           [NoLabels EXCEPT
                               !.reason = orUnknown(body.reason)])),
                       Await("removePlayerFromAllServers")>>
                ELSE IF body.event_name = "world_joined"
                THEN Observe("world_load_time", body.load_time_ms)
                     \o <<Metric(IncCounterCall("world_joined",
                               [NoLabels EXCEPT
                                   !.game_mode = orUnknown(body.game_mode)]))>>
                ELSE IF body.event_name = "state_transition"
                THEN <<Metric(IncCounterCall("state_transition",
                           [NoLabels EXCEPT
                               !.from = orUnknown(body.from_state),
                               !.to = orUnknown(body.to_state)]))>>
                ELSE <<>>)
    IN  <<Metric(IncCounterCall("telemetry_received_total", NoLabels))>>
        \o (IF body.type = "heartbeat" /\ playerUuid # NULL THEN heartbeat
            ELSE IF body.type = "session_start" /\ playerUuid # NULL
            THEN session_start
            ELSE IF body.type = "session_end" /\ playerUuid # NULL
            THEN session_end
            ELSE IF body.type = "event" /\ playerUuid # NULL THEN event
            ELSE <<>>)
        \o <<SendJson>>

\* a call of a metric writer on the buffer: the buffer it leaves and whether
\* it reached scheduleFlush
writeMetric(wb, c) ==
    IF c.fn = "incCounter"
    THEN [buffer |-> incCounter(wb, c.name, c.labels), scheduled |-> TRUE]
    ELSE IF c.fn = "addToCounter"
    THEN [buffer |-> addToCounter(wb, c.name, c.value), scheduled |-> TRUE]
    ELSE LET o == observeHistogram(wb, c.name, c.value)
         IN  [buffer |-> o.buffer, scheduled |-> ~o.returns]

\* one turn of the handler: from the head of rest to its next await or to
\* its end
RECURSIVE turn(_, _, _)
turn(rest, wb, scheduled) ==
    IF rest = <<>> \/ Head(rest).op # "metric"
    THEN [rest |-> rest, buffer |-> wb, scheduled |-> scheduled]
    ELSE LET w == writeMetric(wb, Head(rest).call)
         IN  turn(Tail(rest), w.buffer, scheduled \/ w.scheduled)

TelemetryUnchanged ==
    UNCHANGED <<jsVars, agentVars, keyVars, routeVars, urlVars, pipelines,
                counted, ncalls>>

\* the handler runs from rest to its next await, or to sendJson and its end
RunTurn(body, rest) ==
    LET r == turn(rest, writeBuffer, FALSE)
        s == IF r.scheduled THEN scheduleFlush(flushPending, immediates)
             ELSE [flushPending |-> flushPending, immediates |-> immediates]
    IN  /\ writeBuffer' = r.buffer
        /\ flushPending' = s.flushPending
        /\ immediates' = s.immediates
        /\ IF Head(r.rest).op = "await"
           THEN /\ treq' = [state |-> "awaiting", body |-> body,
                            fn |-> Head(r.rest).fn, rest |-> Tail(r.rest)]
                /\ tres' = tres
           ELSE /\ treq' = [state |-> "returned", body |-> body]
                /\ tres' = Acknowledged

TelemetryBodies ==
    {[EmptyTelemetry EXCEPT !.type = ty] :
        ty \in {NULL, "heartbeat", "session_start", "session_end", "event",
                "crash_report"}}
    \cup {[EmptyTelemetry EXCEPT !.type = "heartbeat", !.fps_avg = 60,
                                 !.connected = "false"],
          [EmptyTelemetry EXCEPT !.type = "session_end",
                                 !.exit_reason = "quit",
                                 !.total_duration_seconds = 90,
                                 !.avg_fps = 60]}
    \cup {[EmptyTelemetry EXCEPT !.type = "event", !.event_name = e] :
            e \in {"server_connect", "server_disconnect", "world_joined",
                   "state_transition"}}

TelemetryTokens ==
    {NoToken, JwtShaped(BearerClaims),
     JwtShaped([BearerClaims EXCEPT !.sub = NULL]),
     TokenOf(1, Part(Garbage), Part(Garbage))}

CallHandleTelemetry ==
    /\ treq = NoTelemetry
    /\ tcalls < MaxTelemetry
    /\ tcalls' = tcalls + 1
    /\ \E body \in TelemetryBodies, authorization \in TelemetryTokens :
           RunTurn(body, handleTelemetry(body, authorization))
    /\ TelemetryUnchanged

\* the storage operation the handler awaits succeeds: the handler resumes
StorageFulfils ==
    /\ treq.state = "awaiting"
    /\ RunTurn(treq.body, treq.rest)
    /\ UNCHANGED tcalls
    /\ TelemetryUnchanged

\* the storage operation fails: the await throws, nothing in the handler
\* catches it, and the promise of handleTelemetry rejects
StorageRejects ==
    /\ treq.state = "awaiting"
    /\ treq' = [state |-> "rejected", body |-> treq.body, fn |-> treq.fn]
    /\ UNCHANGED <<tres, tcalls, writeBuffer, flushPending, immediates>>
    /\ TelemetryUnchanged

TelemetryEnd ==
    /\ treq.state \in {"returned", "rejected"}
    /\ treq' = NoTelemetry
    /\ tres' = NoAnswer
    /\ UNCHANGED <<tcalls, writeBuffer, flushPending, immediates>>
    /\ TelemetryUnchanged

TelemetryNext ==
    CallHandleTelemetry \/ StorageFulfils \/ StorageRejects \/ TelemetryEnd

TelemetryStart ==
    /\ treq = NoTelemetry
    /\ tres = NoAnswer
    /\ tcalls = 0

(***************************************************************************)
(* The signing key of the token service: loadOrGenerateKeys of             *)
(* src/src/services/auth.js, the key file it reads and writes, and the     *)
(* lives of the process (KeySpec).  A step is one call into the file       *)
(* system or into crypto, so that the process can die between any two.     *)
(***************************************************************************)
MaxKeys == 3        \* key pairs crypto.generateKeyPairSync hands out
MaxStarts == 3      \* times the process is started

Undefined == [kind |-> "undefined"]

\* the key pair number k: what crypto.generateKeyPairSync('ed25519') returns
KeyPair(k) ==
    [privateKey |-> [kind |-> "private", id |-> k],
     publicKey |-> [kind |-> "public", id |-> k]]

\* key.export({ format: 'der', type: ... }).toString('base64')
exportDer(key) ==
    [der |-> IF key.kind = "private" THEN "pkcs8" ELSE "spki", id |-> key.id]

InvalidDer == [der |-> "invalid", id |-> 0]

\* crypto.createPrivateKey({ key: Buffer.from(data, 'base64'), format:
\* 'der', type: 'pkcs8' }) throws unless the data is a PKCS#8 private key
createPrivateKeyThrows(data) == data.der # "pkcs8"

createPrivateKey(data) == [kind |-> "private", id |-> data.id]

createPublicKeyThrows(data) == data.der # "spki"

\* a load that would hand back another key than the file holds
createPublicKey_otherKey(data) == [kind |-> "public", id |-> data.id + 1]

createPublicKey(data) == [kind |-> "public", id |-> data.id]

\* publicKey.export({ format: 'jwk' })
exportJwk(key) == [kty |-> "OKP", crv |-> "Ed25519", x |-> key.id]

\* JSON.stringify(keyData, null, 2): the text of the record, as the
\* pieces the file system may write one after the other
KeyDataFields == <<"privateKey", "publicKey", "createdAt">>

stringify(keyData) ==
    [i \in 1..Len(KeyDataFields) |->
        [field |-> KeyDataFields[i], value |-> keyData[KeyDataFields[i]]]]

CreatedAt == [der |-> "date", id |-> 0]

keyDataOf(priv, pub) ==
    [privateKey |-> exportDer(priv), publicKey |-> exportDer(pub),
     createdAt |-> CreatedAt]

\* JSON.parse throws on every text that is not a whole JSON value
JSONparseThrows(text) ==
    \/ Len(text) # Len(KeyDataFields)
    \/ \E i \in 1..Len(text) : text[i].field # KeyDataFields[i]

JSONparse(text) ==
    [name \in {KeyDataFields[i] : i \in 1..Len(KeyDataFields)} |->
        text[CHOOSE i \in 1..Len(text) : text[i].field = name].value]

\* the key file
NoFile == [exists |-> FALSE, text |-> <<>>]

FileOf(text) == [exists |-> TRUE, text |-> text]

RecordOf(k) ==
    FileOf(stringify(keyDataOf(KeyPair(k).privateKey, KeyPair(k).publicKey)))

NotJson == FileOf(<< [field |-> "not json", value |-> InvalidDer] >>)

BadPublicKey(k) ==
    FileOf(stringify([privateKey |-> exportDer(KeyPair(k).privateKey),
                      publicKey |-> InvalidDer,
                      createdAt |-> CreatedAt]))

\* the file holds a whole record of a key pair
Complete(file) ==
    /\ file.exists
    /\ ~JSONparseThrows(file.text)
    /\ ~createPrivateKeyThrows(JSONparse(file.text).privateKey)
    /\ ~createPublicKeyThrows(JSONparse(file.text).publicKey)

\* the file holds the beginning of a record and not its end
Torn(file) ==
    /\ file.exists
    /\ Len(file.text) > 0
    /\ Len(file.text) < Len(KeyDataFields)
    /\ \A i \in 1..Len(file.text) : file.text[i].field = KeyDataFields[i]

\* a token signed with a private key verifies under a JWK that is the
\* public half of that key
SignedToken(key, n) == [signer |-> key.id, life |-> n]

verifies(token, jwk) == jwk # Undefined /\ jwk.x = token.signer

Down == kpc = "down"

KeyUnchanged == UNCHANGED <<jsVars, agentVars, routeVars, sideVars>>

\* node starts: requiring auth.js runs loadOrGenerateKeys()
StartProcess ==
    /\ Down
    /\ life < MaxStarts
    /\ life' = life + 1
    /\ kpc' = "load"
    /\ log' = NULL
    /\ UNCHANGED <<keyFile, fsMode, privateKey, publicKey, publicKeyJwk,
                   generated, signedBy>>
    /\ KeyUnchanged

\* the try block of loadOrGenerateKeys and its catch
LoadKeys ==
    /\ kpc = "load"
    /\ IF ~keyFile.exists
       THEN /\ kpc' = "generate"
            /\ UNCHANGED <<privateKey, publicKey, publicKeyJwk, log>>
       ELSE IF \/ ~fsMode.readable
               \/ JSONparseThrows(keyFile.text)
               \/ createPrivateKeyThrows(JSONparse(keyFile.text).privateKey)
       THEN /\ kpc' = "generate"
            /\ log' = "Could not load existing keys:"
            /\ UNCHANGED <<privateKey, publicKey, publicKeyJwk>>
       ELSE IF createPublicKeyThrows(JSONparse(keyFile.text).publicKey)
       THEN /\ kpc' = "generate"
            /\ log' = "Could not load existing keys:"
            /\ privateKey' = createPrivateKey(JSONparse(keyFile.text).privateKey)
            /\ UNCHANGED <<publicKey, publicKeyJwk>>
       ELSE /\ kpc' = "ready"
            /\ log' = "Loaded existing Ed25519 key pair from disk"
            /\ privateKey' = createPrivateKey(JSONparse(keyFile.text).privateKey)
            /\ publicKey' = createPublicKey(JSONparse(keyFile.text).publicKey)
            /\ publicKeyJwk' = exportJwk(publicKey')
    /\ UNCHANGED <<keyFile, fsMode, life, generated, signedBy>>
    /\ KeyUnchanged

\* crypto.generateKeyPairSync('ed25519') and the three assignments
GenerateKeys ==
    /\ kpc = "generate"
    /\ generated < MaxKeys
    /\ generated' = generated + 1
    /\ privateKey' = KeyPair(generated').privateKey
    /\ publicKey' = KeyPair(generated').publicKey
    /\ publicKeyJwk' = exportJwk(publicKey')
    /\ kpc' = "save"
    /\ UNCHANGED <<keyFile, fsMode, life, signedBy, log>>
    /\ KeyUnchanged

\* mkdirSync and the opening of the key file by fs.writeFileSync; an
\* exception that escaped the catch would leave the process in "threw"
SaveKeys_uncaught ==
    /\ kpc = "save"
    /\ IF fsMode.writable
       THEN /\ keyFile' = FileOf(<<>>)
            /\ kpc' = "write"
            /\ UNCHANGED log
       ELSE /\ kpc' = "threw"
            /\ log' = NULL
            /\ UNCHANGED keyFile
    /\ UNCHANGED <<fsMode, privateKey, publicKey, publicKeyJwk, life,
                   generated, signedBy>>
    /\ KeyUnchanged

SaveKeys ==
    /\ kpc = "save"
    /\ IF fsMode.writable
       THEN /\ keyFile' = FileOf(<<>>)
            /\ kpc' = "write"
            /\ UNCHANGED log
       ELSE /\ kpc' = "ready"
            /\ log' = "Generated Ed25519 key pair (not persisted)"
            /\ UNCHANGED keyFile
    /\ UNCHANGED <<fsMode, privateKey, publicKey, publicKeyJwk, life,
                   generated, signedBy>>
    /\ KeyUnchanged

\* fs.writeFileSync writes the text into the opened file, piece by piece
WriteKeyFile ==
    /\ kpc = "write"
    /\ IF ~fsMode.writable
       THEN /\ kpc' = "ready"
            /\ log' = "Generated Ed25519 key pair (not persisted)"
            /\ UNCHANGED keyFile
       ELSE /\ keyFile' =
                FileOf(Append(keyFile.text,
                    stringify(keyDataOf(privateKey, publicKey))
                        [Len(keyFile.text) + 1]))
            /\ IF keyFile'.text = stringify(keyDataOf(privateKey, publicKey))
               THEN /\ kpc' = "ready"
                    /\ log' = "Generated and saved new Ed25519 key pair"
               ELSE /\ kpc' = "write"
                    /\ UNCHANGED log
    /\ UNCHANGED <<fsMode, privateKey, publicKey, publicKeyJwk, life,
                   generated, signedBy>>
    /\ KeyUnchanged

\* generateToken signs with the private key of the module
SignToken ==
    /\ kpc = "ready"
    /\ signedBy' = signedBy \cup {SignedToken(privateKey, life)}
    /\ UNCHANGED <<keyFile, fsMode, privateKey, publicKey, publicKeyJwk, kpc,
                   life, generated, log>>
    /\ KeyUnchanged

\* a caller of the exported loadOrGenerateKeys
InvokeLoadOrGenerateKeys ==
    /\ kpc = "ready"
    /\ kpc' = "load"
    /\ UNCHANGED <<keyFile, fsMode, privateKey, publicKey, publicKeyJwk, life,
                   generated, signedBy, log>>
    /\ KeyUnchanged

\* the process dies or is stopped: its memory is gone, the disk stays
Crash ==
    /\ ~Down
    /\ kpc' = "down"
    /\ privateKey' = Undefined
    /\ publicKey' = Undefined
    /\ publicKeyJwk' = Undefined
    /\ UNCHANGED <<keyFile, fsMode, life, generated, signedBy, log>>
    /\ KeyUnchanged

\* the environment: the volume of the key file becomes (un)readable or
\* (un)writable
Remount ==
    /\ \E r \in BOOLEAN, w \in BOOLEAN :
           /\ fsMode # [readable |-> r, writable |-> w]
           /\ fsMode' = [readable |-> r, writable |-> w]
    /\ UNCHANGED <<keyFile, privateKey, publicKey, publicKeyJwk, kpc, life,
                   generated, signedBy, log>>
    /\ KeyUnchanged

KeyNext ==
    \/ StartProcess
    \/ LoadKeys
    \/ GenerateKeys
    \/ SaveKeys
    \/ WriteKeyFile
    \/ SignToken
    \/ InvokeLoadOrGenerateKeys
    \/ Crash
    \/ Remount

KeyStart ==
    /\ keyFile = RecordOf(1)
    /\ fsMode = [readable |-> TRUE, writable |-> TRUE]
    /\ privateKey = KeyPair(1).privateKey
    /\ publicKey = KeyPair(1).publicKey
    /\ publicKeyJwk = exportJwk(KeyPair(1).publicKey)
    /\ kpc = "ready"
    /\ life = 1
    /\ generated = 1
    /\ signedBy = {}
    /\ log = "Loaded existing Ed25519 key pair from disk"

\* before the first start: no key file, the record of an earlier
\* deployment, or a file that is no record
KeyFiles == {NoFile, RecordOf(1), NotJson, BadPublicKey(1)}

KeyInit ==
    /\ keyFile \in KeyFiles
    /\ fsMode = [readable |-> TRUE, writable |-> TRUE]
    /\ privateKey = Undefined
    /\ publicKey = Undefined
    /\ publicKeyJwk = Undefined
    /\ kpc = "down"
    /\ life = 0
    /\ generated = IF keyFile \in {RecordOf(1), BadPublicKey(1)} THEN 1 ELSE 0
    /\ signedBy = {}
    /\ log = NULL

(***************************************************************************)
(* The session routes of the token service, src/routes/session.js, as the  *)
(* test suite src/unnamed/part_003 calls them (RouteSpec): the test calls  *)
(* handleGameSessionNew and, without waiting for any promise, finds the    *)
(* 200 answer written and ended.  storage.registerSession returns a        *)
(* promise, which settles in a later turn.                                 *)
(***************************************************************************)
NoSessionCall == [handler |-> "none"]

NoSessionAnswer ==
    [status |-> 0, identityToken |-> NoToken, sessionToken |-> NoToken,
     expiresIn |-> 0]

RouteUuids == {"test-uuid", "uuid"}
RouteNames == {"TestPlayer", "name"}

RouteIdle == sreq = NoSessionCall

\* sessionRoutes.handleGameSessionNew(mockReq, mockRes, body, uuid, name)
\* up to its return: the tokens are generated for the Host header and the
\* answer is written; whether the handler has called
\* storage.registerSession by then the tests leave open
CallHandleGameSessionNew ==
    /\ RouteIdle
    /\ \E host \in Hosts, uuid \in RouteUuids, name \in RouteNames,
          now \in Times, jti \in GenIds :
        /\ sreq' = [handler |-> "handleGameSessionNew", host |-> host,
                    uuid |-> uuid, name |-> name]
        /\ sres' = [status |-> 200,
                    identityToken |->
                        generateIdentityToken(uuid, name, NoScopes,
                            <<"game.base">>, host, now, jti),
                    sessionToken |->
                        generateSessionToken(uuid, host, now, jti),
                    expiresIn |-> SessionTtl]
    /\ swrite' \in {"not called", "pending"}
    /\ UNCHANGED <<jsVars, agentVars, keyVars, sideVars>>

\* the promise of storage.registerSession is fulfilled, or rejected when
\* the store fails; the answer has ended by then
RegisterSessionSettles ==
    /\ swrite = "pending"
    /\ swrite' \in {"fulfilled", "rejected"}
    /\ UNCHANGED <<sreq, sres, jsVars, agentVars, keyVars, sideVars>>

\* the turn of the call and the turns of its promises are over
SessionCallEnd ==
    /\ ~RouteIdle
    /\ swrite # "pending"
    /\ sreq' = NoSessionCall
    /\ sres' = NoSessionAnswer
    /\ swrite' = "not called"
    /\ UNCHANGED <<jsVars, agentVars, keyVars, sideVars>>

RouteNext ==
    \/ CallHandleGameSessionNew
    \/ RegisterSessionSettles
    \/ SessionCallEnd

RouteStart ==
    /\ sreq = NoSessionCall
    /\ sres = NoSessionAnswer
    /\ swrite = "not called"

(***************************************************************************)
(* The programs.                                                           *)
(***************************************************************************)
JsStart ==
    /\ call = NoCall
    /\ ret = NoRet
    /\ req = NoReq
    /\ res = NoRes
    /\ rnd = NoRnd

AgentStart ==
    /\ currentIssuer = [t \in Threads |-> NULL]
    /\ currentJwk = [t \in Threads |-> NULL]
    /\ currentPlayerUuid = [t \in Threads |-> NULL]
    /\ currentUsername = [t \in Threads |-> NULL]
    /\ isCurrentTokenOmni = [t \in Threads |-> NULL]
    /\ globalJwkCache = [issuer \in AgentIssuers |-> NULL]
    /\ globalPlayerJwkCache = [uuid \in PlayerUuids |-> NULL]
    /\ last = [thread |-> NULL, op |-> "none"]

SideStart == UrlStart /\ MetricStart /\ TelemetryStart

Init ==
    /\ JsStart /\ AgentStart /\ policy = DefaultPolicy /\ KeyStart
    /\ RouteStart /\ SideStart

Next == AuthNext \/ ServerNext

Spec == Init /\ [][Next]_vars

AgentInit ==
    /\ JsStart /\ AgentStart /\ policy \in Policies /\ KeyStart
    /\ RouteStart /\ SideStart

AgentSpec == AgentInit /\ [][AgentNext]_vars

KeyStoreInit ==
    /\ JsStart /\ AgentStart /\ policy = DefaultPolicy /\ KeyInit
    /\ RouteStart /\ SideStart

KeySpec == KeyStoreInit /\ [][KeyNext]_vars

RouteSpec == Init /\ [][RouteNext]_vars

ConnectionInit ==
    /\ JsStart /\ ConnectionStart /\ policy = DefaultPolicy
    /\ KeyStart /\ RouteStart /\ SideStart

\* the context of each thread names the issuer of the connection it serves
UrlInit ==
    /\ JsStart /\ policy = DefaultPolicy /\ KeyStart /\ RouteStart
    /\ SideStart
    /\ currentIssuer \in [Threads -> RoutedIssuers]
    /\ currentJwk = [t \in Threads |-> NULL]
    /\ currentPlayerUuid = [t \in Threads |-> NULL]
    /\ currentUsername = [t \in Threads |-> NULL]
    /\ isCurrentTokenOmni = [t \in Threads |-> NULL]
    /\ globalJwkCache = [issuer \in AgentIssuers |-> NULL]
    /\ globalPlayerJwkCache = [uuid \in PlayerUuids |-> NULL]
    /\ last = [thread |-> NULL, op |-> "none"]

UrlSpec == UrlInit /\ [][UrlNext]_vars

MetricSpec == Init /\ [][MetricNext]_vars

TelemetrySpec == Init /\ [][TelemetryNext]_vars

ConnectionSpec == ConnectionInit /\ [][ConnectionNext]_vars

(***************************************************************************)
(* Properties of the JavaScript side (Spec).                               *)
(***************************************************************************)

\* C1: every token returned by generateIdentityToken, generateSessionToken,
\* generateAuthorizationGrant and generateAccessToken for a request whose
\* Host header is h has iss = getIssuerUrl(h), for every h, absent included
C1_IssuerIsResolverOutput ==
    ret.kind = "token" =>
        ret.token[2].doc.iss = getIssuerUrl(call.requestHost)

\* a session token for a host with a port carries the issuer of that host
C1_Witness ==
    /\ ret.kind = "token"
    /\ call.fn = "generateSessionToken"
    /\ call.requestHost = "sessions.sanasol.ws:443"
    /\ ret.token[2].doc.iss = "https://sessions.sanasol.ws"

\* C2: when the authorization grant presented to the token exchange carries
\* sub = u and aud = a, the access token answered has sub = u and aud = a,
\* whatever subject the request context had
C2_ExchangePreservesGrantIdentity ==
    (res.status = 200 /\ route(req.path) = "handleTokenExchange") =>
        LET grant == req.body.authorizationGrant
        IN  (/\ Len(grant) >= 2
             /\ grant[2].doc.kind = "object"
             /\ grant[2].doc.sub # NULL
             /\ grant[2].doc.aud # NULL) =>
                /\ res.accessToken[2].doc.sub = grant[2].doc.sub
                /\ res.accessToken[2].doc.aud = grant[2].doc.aud

\* the bearer token and the body name other subjects than the grant does
C2_Witness ==
    /\ res.status = 200
    /\ route(req.path) = "handleTokenExchange"
    /\ Len(req.authorization) >= 2
    /\ req.authorization[2].doc.kind = "object"
    /\ req.authorization[2].doc.sub = "u3"
    /\ req.body.uuid = "u1"
    /\ Len(req.body.authorizationGrant) = 3
    /\ req.body.authorizationGrant[2].doc.kind = "object"
    /\ req.body.authorizationGrant[2].doc.sub = "u2"
    /\ req.body.authorizationGrant[2].doc.aud = "s9"
    /\ res.accessToken[2].doc.sub = "u2"
    /\ res.accessToken[2].doc.aud = "s9"

\* C3: an access token emitted with a fingerprint supplied by the caller has
\* cnf["x5t#S256"] equal to a supplied fingerprint, unaltered; an access
\* token emitted without one has no cnf claim
C3_CertificateBindingVerbatim ==
    /\ (ret.kind = "token" /\ call.fn = "generateAccessToken") =>
            ret.token[2].doc.cnf = call.certFingerprint
    /\ (res.status = 200 /\ route(req.path) = "handleTokenExchange") =>
            LET supplied == {req.body.x509Fingerprint,
                             req.body.certFingerprint,
                             req.body.fingerprint} \ {NULL}
                cnf == res.accessToken[2].doc.cnf
            IN  IF supplied = {} THEN cnf = NULL ELSE cnf \in supplied

\* an exchange that supplies x509Fingerprint alone
C3_Witness ==
    /\ res.status = 200
    /\ route(req.path) = "handleTokenExchange"
    /\ req.body.x509Fingerprint = "FP1"
    /\ req.body.certFingerprint = NULL
    /\ req.body.fingerprint = NULL
    /\ res.accessToken[2].doc.cnf = "FP1"

C5_IdentityTokenSubjectWins ==
    (res.status = 200 /\ route(req.path) = "handleAuthorizationGrant") =>
        LET identity == req.body.identityToken
        IN  (/\ Len(identity) >= 2
             /\ identity[2].doc.kind = "object"
             /\ identity[2].doc.sub # NULL) =>
                res.authorizationGrant[2].doc.sub = identity[2].doc.sub

\* the request context has the subject of the bearer token, the grant has
\* the subject of the identity token
C5_Witness ==
    /\ res.status = 200
    /\ route(req.path) = "handleAuthorizationGrant"
    /\ routeContext(req.body, req.authorization, rnd.uuid).uuid = "u3"
    /\ Len(req.body.identityToken) = 3
    /\ req.body.identityToken[2].doc.kind = "object"
    /\ req.body.identityToken[2].doc.sub = "u2"
    /\ res.authorizationGrant[2].doc.sub = "u2"

\* C6: parseToken returns null and extractServerAudienceFromHeaders returns
\* null for every token string that is not exactly three parts, each of
\* them URL-safe base64
C6_MalformedTokenYieldsNoClaims ==
    LET threeBase64Parts(t) == Len(t) = 3 /\ \A i \in 1..3 : t[i].b64
    IN  /\ (call.fn = "parseToken" /\ ret # NoRet
            /\ ~threeBase64Parts(call.tokenString)) => ret = NullResult
        /\ (call.fn = "extractServerAudienceFromHeaders" /\ ret # NoRet
            /\ ~threeBase64Parts(call.authorization)) => ret.value = NULL

\* C7: no claim of a presented token whose header does not declare
\* alg = EdDSA is used: parseToken and extractServerAudienceFromHeaders
\* return null for it, and Refresh, Authorize and Exchange answer what they
\* answer to the same request without that token
C7_NonEdDSATokenUnused ==
    LET declaresEdDSA(t) ==
            /\ Len(t) >= 1
            /\ t[1].doc.kind = "object"
            /\ "alg" \in DOMAIN t[1].doc
            /\ t[1].doc.alg = "EdDSA"
        accepted(t) == IF declaresEdDSA(t) THEN t ELSE NoToken
        withoutRejected(r) ==
            [r EXCEPT !.authorization = accepted(r.authorization),
                      !.body = [r.body EXCEPT
                          !.identityToken = accepted(r.body.identityToken),
                          !.sessionToken = accepted(r.body.sessionToken),
                          !.accessToken = accepted(r.body.accessToken),
                          !.authorizationGrant =
                              accepted(r.body.authorizationGrant)]]
    IN  /\ (call.fn = "parseToken" /\ ret # NoRet
            /\ ~declaresEdDSA(call.tokenString)) => ret = NullResult
        /\ (call.fn = "extractServerAudienceFromHeaders" /\ ret # NoRet
            /\ ~declaresEdDSA(call.authorization)) => ret.value = NULL
        /\ (res.status = 200
            /\ route(req.path) \in {"handleGameSessionRefresh",
                                    "handleAuthorizationGrant",
                                    "handleTokenExchange"})
            => res = dispatch(withoutRejected(req), rnd)
\* C16: a Refresh request whose session token does not parse (it is not
\* three URL-safe base64 parts around a JSON payload) is answered 200 with
\* an identity token and a session token whose subject is the subject of
\* the request context
C16_UnparsedRefreshKeepsContextSubject ==
    LET token == req.body.sessionToken
        parses(t) ==
            /\ Len(t) = 3
            /\ \A i \in 1..3 : t[i].b64
            /\ t[1].doc.kind = "object"
            /\ t[2].doc.kind = "object"
        subject == routeContext(req.body, req.authorization, rnd.uuid).uuid
    IN  (/\ res # NoRes
         /\ maybeRedirectToIssuer(req) = NULL
         /\ route(req.path) = "handleGameSessionRefresh"
         /\ token # NoToken
         /\ ~parses(token))
        => /\ res.status = 200
           /\ res.identityToken # NoToken
           /\ res.sessionToken # NoToken
           /\ res.identityToken[2].doc.sub = subject
           /\ res.sessionToken[2].doc.sub = subject

C19_LifetimeIsSessionTtl ==
    LET lifetime(token) == token[2].doc.exp - token[2].doc.iat
        answered == {res.identityToken, res.sessionToken,
                     res.authorizationGrant, res.accessToken,
                     res.refreshToken} \ {NoToken}
    IN  /\ ret.kind = "token" => lifetime(ret.token) = SessionTtl
        /\ res.status = 200 =>
               \A token \in answered : lifetime(token) = SessionTtl

\* C20: when no scopes are supplied (absent or null), the scope of every
\* identity token, grant and access token emitted is exactly
\* "hytale:server hytale:client"
C20_DefaultScopeServerClient ==
    LET answered == {res.identityToken, res.authorizationGrant,
                     res.accessToken} \ {NoToken}
    IN  /\ (/\ ret.kind = "token"
            /\ call.fn \in {"generateIdentityToken",
                            "generateAuthorizationGrant",
                            "generateAccessToken"}
            /\ call.scopes = NoScopes)
           => ret.token[2].doc.scope = "hytale:server hytale:client"
        /\ (res.status = 200 /\ req.body.scopes = NoScopes)
           => \A token \in answered :
                  token[2].doc.scope = "hytale:server hytale:client"

\* C21: the scope of a token generated for a list of scopes is the
\* entries joined by single spaces, in order and with repetitions, "" for
\* the empty list; the scope of a token generated for a string of scopes
\* is that string, the empty string included
C21_ScopesPreserved ==
    (/\ ret.kind = "token"
     /\ call.fn \in {"generateIdentityToken", "generateAuthorizationGrant",
                     "generateAccessToken"})
    => /\ call.scopes.type = "array"
          => ret.token[2].doc.scope = joinSpace(call.scopes.items)
       /\ call.scopes.type = "string"
          => ret.token[2].doc.scope = call.scopes.str

\* C22: the audience of Authorize and Exchange is the audience the request
\* body names (for Exchange also the aud of the grant in the body); when
\* the body names none it is the aud of the bearer token, and when that
\* token has no aud its sub, provided its scope is exactly hytale:server;
\* a bearer token that is absent or does not parse (it is not three
\* URL-safe base64 parts around a JSON payload) contributes no audience
C22_AudiencePreferenceOrder ==
    LET parses(t) ==
            /\ Len(t) = 3
            /\ \A i \in 1..3 : t[i].b64
            /\ t[2].doc.kind = "object"
        fromBearer(t) ==
            IF ~parses(t) THEN NULL
            ELSE IF t[2].doc.aud # NULL THEN t[2].doc.aud
            ELSE IF t[2].doc.scope = "hytale:server" THEN t[2].doc.sub
            ELSE NULL
        named == {req.body.aud, req.body.audience, req.body.server_id} \ {NULL}
        grant == req.body.authorizationGrant
        granted == IF parses(grant) /\ grant[2].doc.aud # NULL
                   THEN {grant[2].doc.aud} ELSE {}
    IN  /\ (call.fn = "extractServerAudienceFromHeaders" /\ ret # NoRet)
           => ret.value = fromBearer(call.authorization)
        /\ (res.status = 200 /\ route(req.path) = "handleAuthorizationGrant")
           => LET aud == res.authorizationGrant[2].doc.aud
              IN  IF named # {} THEN aud \in named
                  ELSE fromBearer(req.authorization) # NULL
                       => aud = fromBearer(req.authorization)
        /\ (res.status = 200 /\ route(req.path) = "handleTokenExchange")
           => LET aud == res.accessToken[2].doc.aud
              IN  IF named \cup granted # {} THEN aud \in named \cup granted
                  ELSE fromBearer(req.authorization) # NULL
                       => aud = fromBearer(req.authorization)

\* C23: the issuer of a token generated for a Host header is "https://"
\* followed by the header up to its first colon exactly when that part
\* contains the base domain, and "https://" followed by the base domain
\* for every other header and for an absent one
C23_IssuerFromHostWithoutPort ==
    LET h == call.requestHost
        colonFree(k) == \A j \in 1..k : SubSeq(h, j, j) # ":"
        n == CHOOSE k \in 0..Len(h) :
                 /\ colonFree(k)
                 /\ k = Len(h) \/ SubSeq(h, k + 1, k + 1) = ":"
        host == SubSeq(h, 1, n)
        contains == \E i \in 1..(Len(host) - Len(Domain) + 1) :
                        SubSeq(host, i, i + Len(Domain) - 1) = Domain
    IN  ret.kind = "token"
        => /\ (h # NULL /\ contains)
              => ret.token[2].doc.iss = "https://" \o host
           /\ ~(h # NULL /\ contains)
              => ret.token[2].doc.iss = "https://" \o Domain

\* an identity token for a host that has a port and the base domain in
\* the middle of its name
C23_Witness ==
    /\ ret.kind = "token"
    /\ call.fn = "generateIdentityToken"
    /\ call.requestHost = "sanasol.ws.evil.io:8443"
    /\ ret.token[2].doc.iss = "https://sanasol.ws.evil.io"

C25_RedirectToForeignIssuerOnly ==
    LET fromHeaders == extractJwtFromHeaders(req.authorization)
        token == IF fromHeaders # NoToken THEN fromHeaders
                 ELSE extractJwtFromBody(req.body)
        payload == parseJwtPayload(token)
        url == IF payload.kind = "object" THEN normalizeIssuerToUrl(payload.iss)
               ELSE NoUrl
        foreign == /\ url.valid
                   /\ url.host # ""
                   /\ toLowerCase(url.host) # toLowerCase(req.host)
    IN  res # NoRes
        => /\ res.status = 307 <=> foreign
           /\ res.status = 307
              => /\ \E scheme \in {"http:", "https:"} :
                        res.location = scheme \o "//" \o url.host \o req.path
                 /\ maybeRedirectToIssuer([req EXCEPT !.host = url.host]) = NULL

(***************************************************************************)
(* Properties of the agent (AgentSpec).                                    *)
(***************************************************************************)

\* C8: a token whose header embeds a jwk takes the bypass path of
\* requestAuthorizationGrantAsync and exchangeAuthGrantForTokenAsync if and
\* only if its signature verifies under that embedded key
C8_SelfSignIntegrity ==
    (last.op \in BypassedMethods /\ hasEmbeddedJwk(last.tokenArg)) =>
        ((last.entered # NoFuture) <=> last.tokenArg.verifies)

\* C9: a call of requestAuthorizationGrantAsync or
\* exchangeAuthGrantForTokenAsync that does not present a self-signed token
\* whose issuer the policy accepts goes to the session service
C9_BypassOnlyUnderPolicy ==
    last.op \in BypassedMethods =>
        (~(/\ hasEmbeddedJwk(last.tokenArg)
           /\ acceptsSelfSigned(policy,
                                extractIssuerFromToken(last.tokenArg)))
            => last.returned = SessionServiceFuture)

\* C10 as stated: once a thread has reset or cleared its context, and no
\* other thread is inside a connection, neither that context nor the cache
\* by issuer nor the cache by player holds a JWK with a private scalar
C10_PrivateKeyNeverRetained ==
    (/\ last.op \in {"resetForNewConnection", "clear"}
     /\ \A t \in Threads \ {last.thread} :
            currentJwk[t] = NULL /\ currentIssuer[t] = NULL) =>
        /\ ~hasPrivate(currentJwk[last.thread])
        /\ \A issuer \in AgentIssuers : ~hasPrivate(globalJwkCache[issuer])
        /\ \A uuid \in PlayerUuids : ~hasPrivate(globalPlayerJwkCache[uuid])

\* C10 amended: resetForNewConnection and clear leave no JWK in the context
\* of their thread, getJwk on that thread then returns null, and they leave
\* the cache by issuer and the cache by player as they are, private scalars
\* included
C10_ResetEmptiesContextNotCaches ==
    [][last'.op \in {"resetForNewConnection", "clear"} =>
        /\ currentJwk'[last'.thread] = NULL
        /\ getJwk(currentJwk'[last'.thread], currentIssuer'[last'.thread],
                  currentPlayerUuid'[last'.thread], globalJwkCache',
                  globalPlayerJwkCache') = NULL
        /\ globalJwkCache' = globalJwkCache
        /\ globalPlayerJwkCache' = globalPlayerJwkCache]_vars

\* a thread has reset its context and both caches hold the private JWK the
\* connection before presented
C10_Witness ==
    /\ last.op = "resetForNewConnection"
    /\ currentJwk[last.thread] = NULL
    /\ \E issuer \in AgentIssuers : hasPrivate(globalJwkCache[issuer])
    /\ \E uuid \in PlayerUuids : hasPrivate(globalPlayerJwkCache[uuid])

\* C26: a call of setJwk with an argument that is not null leaves a JWK
\* containing "d" in every slot that held one before the call: the current
\* JWK of each thread, the entry of the cache by issuer under the issuer of
\* the calling thread (and under every other issuer), and the entry of the
\* cache by player under its player uuid (and under every other)
C26_PrivateJwkNeverDowngraded ==
    [][(last'.op = "setJwk" /\ last'.jwk # NULL) =>
        /\ \A t \in Threads :
               hasPrivate(currentJwk[t]) => hasPrivate(currentJwk'[t])
        /\ \A issuer \in AgentIssuers :
               hasPrivate(globalJwkCache[issuer])
                   => hasPrivate(globalJwkCache'[issuer])
        /\ \A uuid \in PlayerUuids :
               hasPrivate(globalPlayerJwkCache[uuid])
                   => hasPrivate(globalPlayerJwkCache'[uuid])]_vars

\* setJwk was called with a public-only JWK on a thread with issuer and
\* player uuid, and all three slots hold the private JWK set before
C26_Witness ==
    /\ last.op = "setJwk"
    /\ last.jwk = PublicJwk
    /\ currentIssuer[last.thread] # NULL
    /\ currentPlayerUuid[last.thread] # NULL
    /\ currentJwk[last.thread] = PrivateJwk
    /\ globalJwkCache[currentIssuer[last.thread]] = PrivateJwk
    /\ globalPlayerJwkCache[currentPlayerUuid[last.thread]] = PrivateJwk

(***************************************************************************)
(* Properties of the connections (ConnectionSpec).                         *)
(***************************************************************************)

\* C27: on a thread whose context LambdaContextAdvice has reset and set to
\* the issuer and the player uuid of a connection, getUsername returns
\* nothing of an earlier connection, the JWK of the thread is one the token
\* of this player supplied, and getJwk returns null or a JWK of this player,
\* never one that the token of another player supplied
C27_NoLeakBetweenPlayers ==
    \A t \in Threads :
        (currentIssuer[t] # NULL /\ currentPlayerUuid[t] # NULL) =>
            LET own == JwksOf(currentPlayerUuid[t]) \cup {NULL}
            IN  /\ currentUsername[t] = NULL
                /\ currentJwk[t] \in own
                /\ getJwk(currentJwk[t], currentIssuer[t],
                          currentPlayerUuid[t], globalJwkCache,
                          globalPlayerJwkCache) \in own
                /\ (last.op = "getJwk" /\ last.thread = t)
                       => last.returned \in own

(***************************************************************************)
(* Properties of the routing (UrlSpec).                                    *)
(***************************************************************************)

\* C28: whatever the interleaving of the routed calls on the shared client,
\* each call sends its request to the session URL of the issuer in the
\* context of its own thread if that issuer is not official, and to the
\* saved original URL if the issuer is official or absent
C28_RequestGoesToOwnIssuer ==
    \A t \in Threads :
        requested[t] # NoRequest =>
            requested[t].url =
                IF requested[t].issuer # NULL
                   /\ ~isOfficialIssuer(requested[t].issuer)
                THEN getSessionUrlForIssuer(requested[t].issuer)
                ELSE originalSessionUrl

(***************************************************************************)
(* Properties of the metrics service (MetricSpec).                         *)
(***************************************************************************)

\* C29: at most one flush callback is queued at a time, it is queued
\* whenever the buffer holds a counter, and what the calls have added to a
\* counter is the sum of what the buffer holds for it and what the
\* pipelines built so far carry for it: every increment is in the buffer
\* or in one pipeline, none is lost and none is in two
C29_BatchedWithoutLossOrDuplication ==
    LET RECURSIVE piped(_, _)
        piped(k, i) == IF i = 0 THEN 0
                       ELSE orZero(pipelines[i].hincrbyfloat, k)
                            + piped(k, i - 1)
        keys == DOMAIN counted \cup DOMAIN writeBuffer.counters
                \cup UNION {DOMAIN pipelines[i].hincrbyfloat :
                                i \in 1..Len(pipelines)}
    IN  /\ immediates <= 1
        /\ flushPending <=> immediates = 1
        /\ DOMAIN writeBuffer.counters # {} => flushPending
        /\ \A k \in keys :
               orZero(counted, k)
                   = orZero(writeBuffer.counters, k) + piped(k, Len(pipelines))

\* two pipelines carry increments of requests_total, and a third increment
\* is buffered with its flush queued
C29_Witness ==
    /\ Len(pipelines) = 2
    /\ \A i \in 1..2 : orZero(pipelines[i].hincrbyfloat, "requests_total") = 1
    /\ orZero(writeBuffer.counters, "requests_total") = 1
    /\ flushPending
    /\ counted["requests_total"] = 3

(***************************************************************************)
(* Properties of the telemetry route (TelemetrySpec).                      *)
(***************************************************************************)

\* C30: when a call of handleTelemetry is over, whatever the type of the
\* telemetry, with or without a player id, and whether or not a storage
\* operation failed, the response is 200 {success: true, received: true}
C30_TelemetryAlwaysAcknowledged ==
    treq.state \in {"returned", "rejected"} => tres = Acknowledged

(***************************************************************************)
(* Properties of the session routes (RouteSpec).                           *)
(***************************************************************************)

\* C18: an answer of NewSession with a 2xx status is on the wire only when
\* the write of the session record has completed, and when that write has
\* failed the answer is 503 and carries no token
C18_AnswerAfterSessionWrite ==
    (sreq # NoSessionCall /\ sreq.handler = "handleGameSessionNew")
    => /\ (sres.status >= 200 /\ sres.status < 300) => swrite = "fulfilled"
       /\ swrite = "rejected"
          => /\ sres.status = 503
             /\ sres.identityToken = NoToken
             /\ sres.sessionToken = NoToken

(***************************************************************************)
(* Properties of the signing key (KeySpec).                                *)
(***************************************************************************)

\* the module holds a key pair: publicKey and publicKeyJwk are the public
\* half of privateKey
Usable ==
    /\ privateKey # Undefined
    /\ privateKey.kind = "private"
    /\ publicKey = KeyPair(privateKey.id).publicKey
    /\ publicKeyJwk = exportJwk(KeyPair(privateKey.id).publicKey)

\* C12: a start that finds the whole record of a key pair in a readable key
\* file ends with that key pair in memory, and every token signed earlier
\* with the key of the record verifies under the public key the process
\* then publishes.
C12_KeySurvivesRestart ==
    [][ (/\ kpc = "load"
         /\ kpc' \notin {"load", "down"}
         /\ Complete(keyFile)
         /\ fsMode.readable)
        => /\ kpc' = "ready"
           /\ keyFile' = keyFile
           /\ exportDer(privateKey') = JSONparse(keyFile.text).privateKey
           /\ exportDer(publicKey') = JSONparse(keyFile.text).publicKey
           /\ \A token \in signedBy :
                  exportDer(KeyPair(token.signer).privateKey)
                      = JSONparse(keyFile.text).privateKey
                  => verifies(token, publicKeyJwk') ]_vars

\* a later life of the process has loaded the key pair that an earlier life
\* generated, saved and signed a token with
C12_Witness ==
    /\ kpc = "ready"
    /\ log = "Loaded existing Ed25519 key pair from disk"
    /\ Complete(keyFile)
    /\ \E token \in signedBy :
           /\ token.life < life
           /\ token.signer > 1
           /\ token.signer = privateKey.id
           /\ verifies(token, publicKeyJwk)

\* C13: within one life of the process the key is written once: every
\* token the process signed in this life verifies under the public key it
\* publishes now, whatever was called in between.
C13_KeyWrittenOncePerLife ==
    kpc = "ready"
    => \A token \in signedBy :
           token.life = life => verifies(token, publicKeyJwk)

\* C14: when the process is down, the key file is absent or holds a whole
\* record, never the beginning of one.
C14_KeyFileNeverTorn == Down => ~Torn(keyFile)

\* C15: loadOrGenerateKeys never ends in an exception; a key file that is
\* missing, unreadable or unparseable sends it on to generate a key pair,
\* and whenever it has returned, saved or not, the module holds a key pair
\* whose publicKeyJwk is the public half of privateKey.
C15_LoadNeverFails ==
    [][ /\ (/\ kpc = "load"
            /\ kpc' \notin {"load", "down"}
            /\ ~(Complete(keyFile) /\ fsMode.readable))
           => kpc' = "generate"
        /\ kpc' # "threw"
        /\ kpc' = "ready" => Usable' ]_vars

\* the key pair could not be saved and the call has returned with it
C15_Witness ==
    /\ kpc = "ready"
    /\ log = "Generated Ed25519 key pair (not persisted)"
    /\ ~Complete(keyFile)
    /\ Usable

====
